---- MODULE Spec2Model ----
(***************************************************************************)
(* Model of the open-data-quality validators (ondata/skills):              *)
(*   csv_validator.py      CsvValidator, phases 0-4 and scoring            *)
(*   metadata_validator.py MetadataValidator, AccessibilityChecker,        *)
(*                         ConsistencyChecker                              *)
(*   models.py             Finding, ScoreDimension, QualityReport          *)
(*   cli_csv.py, cli_ckan.py  the two command-line entry points            *)
(*                                                                         *)
(* The analytics engine (DuckDB), the encoding detector, the file system   *)
(* and the HTTP client are external: every call to them is a               *)
(* nondeterministic choice over the outcomes the call can have, failure    *)
(* included.                                                               *)
(***************************************************************************)
EXTENDS Integers, Sequences, FiniteSets, TLC

\* ------------------------------------------------------------------ bounds

\* Irregularities of one run: defects of the input plus failing external calls.
MaxAnomalies == 2
\* Data rows of the parsed table.
MaxRows == 1

\* ------------------------------------------------------- models.py: Severity

BLOCKER == "blocker"
MAJOR == "major"
MINOR == "minor"
OK == "ok"

\* ------------------------------------------------- csv_validator.py: phases

P0 == "phase0_blockers"
P1 == "phase1_structure"
P2 == "phase2_columns"
P3 == "phase3_content"
P4 == "phase4_codes"

\* ------------------------------------------------------ models.py: Finding

Finding(severity, phase, code, message) ==
  [severity |-> severity, phase |-> phase, code |-> code, message |-> message]

ScoreDimension(name, max_score, score, notes) ==
  [name |-> name, max_score |-> max_score, score |-> score, notes |-> notes]

\* QualityReport(source=...): no findings, no dimensions.
QualityReport == [findings |-> <<>>, dimensions |-> <<>>, profile |-> "unknown"]

add(r, finding) == [r EXCEPT !.findings = Append(@, finding)]
ok(r, phase, code, message) == add(r, Finding(OK, phase, code, message))
\* A faulty variant of QualityReport.blocker (severity MAJOR); C5 fails with it.
blocker_as_major(r, phase, code, message) ==
  add(r, Finding(MAJOR, phase, code, message))
blocker(r, phase, code, message) == add(r, Finding(BLOCKER, phase, code, message))
major(r, phase, code, message) == add(r, Finding(MAJOR, phase, code, message))
minor(r, phase, code, message) == add(r, Finding(MINOR, phase, code, message))

append_dimension(r, d) == [r EXCEPT !.dimensions = Append(@, d)]

WithSeverity(r, s) == SelectSeq(r.findings, LAMBDA f : f.severity = s)
blockers(r) == WithSeverity(r, BLOCKER)
majors(r) == WithSeverity(r, MAJOR)
minors(r) == WithSeverity(r, MINOR)
has_blockers(r) == Len(blockers(r)) > 0

\* A faulty variant of QualityReport.suppress (keeps every finding); C6 fails with it.
suppress_nothing(r, code) == r
suppress(r, code) ==
  [r EXCEPT !.findings = SelectSeq(@, LAMBDA f : f.code # code)]

RECURSIVE SumScores(_, _)
SumScores(dims, field) ==
  IF dims = <<>> THEN 0
  ELSE (IF field = "score" THEN Head(dims).score ELSE Head(dims).max_score)
       + SumScores(Tail(dims), field)

total_score(r) == SumScores(r.dimensions, "score")
max_score(r) == SumScores(r.dimensions, "max_score")

\* Python's round() of the float n/d for n, d >= 0: nearest integer, ties to even.
RoundHalfEven(n, d) ==
  LET q == n \div d
      rem == n % d
  IN  IF 2 * rem < d THEN q
      ELSE IF 2 * rem > d THEN q + 1
      ELSE IF q % 2 = 0 THEN q ELSE q + 1

\* score_pct with the quotient truncated.
score_pct_truncated(r) ==
  IF max_score(r) = 0 THEN 0 ELSE (total_score(r) * 100) \div max_score(r)

score_pct(r) ==
  IF max_score(r) = 0 THEN 0 ELSE RoundHalfEven(total_score(r) * 100, max_score(r))

Codes(findings) == {findings[i].code : i \in 1..Len(findings)}
NonOk(findings) == SelectSeq(findings, LAMBDA f : f.severity # OK)

\* QualityReport.to_dict with the ok findings exported too.
to_dict_all(r) ==
  [profile |-> r.profile,
   score |-> score_pct(r),
   score_raw |-> ToString(total_score(r)) \o "/" \o ToString(max_score(r)),
   findings |-> r.findings,
   dimensions |-> [i \in 1..Len(r.dimensions) |->
                    [name |-> r.dimensions[i].name, score |-> r.dimensions[i].score,
                     max |-> r.dimensions[i].max_score, notes |-> r.dimensions[i].notes]]]

\* QualityReport.to_dict: the export (source and mode are constants of the run).
to_dict(r) ==
  [profile |-> r.profile,
   score |-> score_pct(r),
   score_raw |-> ToString(total_score(r)) \o "/" \o ToString(max_score(r)),
   findings |-> NonOk(r.findings),
   dimensions |-> [i \in 1..Len(r.dimensions) |->
                    [name |-> r.dimensions[i].name, score |-> r.dimensions[i].score,
                     max |-> r.dimensions[i].max_score, notes |-> r.dimensions[i].notes]]]

\* cli_csv.main / cli_ckan.main: the exit code.
\* A faulty variant of ExitCode (majors tested first); C9 fails with it.
ExitCode_majors_first(r) ==
  IF Len(majors(r)) > 0 THEN 1 ELSE IF has_blockers(r) THEN 2 ELSE 0
ExitCode(r) ==
  IF has_blockers(r) THEN 2 ELSE IF Len(majors(r)) > 0 THEN 1 ELSE 0

\* The verdict recomputed from the findings array of an export alone.
VerdictOfExport(export) ==
  IF \E i \in 1..Len(export.findings) : export.findings[i].severity = BLOCKER THEN 2
  ELSE IF \E i \in 1..Len(export.findings) : export.findings[i].severity = MAJOR THEN 1
  ELSE 0


\* ------------------------------------------- csv_validator.py: the input file

\* What _detect_encoding can return (charset_normalizer names, lower-cased).
Encodings == {"utf_8", "ascii", "cp1252", "unknown"}

\* A parsed table: the raw header row of the file, the engine's column types
\* and the delimiter the file is written with.
Table(raw, types, delim) == [raw |-> raw, types |-> types, delim |-> delim]
NoTable == Table(<<>>, <<>>, ",")

Tables ==
  { Table(<<"id", "name">>, <<"BIGINT", "VARCHAR">>, ","),
    Table(<<"id", "n">>, <<"BIGINT", "BIGINT">>, ","),
    Table(<<"id", "name">>, <<"BIGINT", "VARCHAR">>, ";"),
    Table(<<"id", "2019", "2020", "2021", "2022">>,
          <<"BIGINT", "BIGINT", "BIGINT", "BIGINT", "BIGINT">>, ","),
    Table(<<"id", "2019", "2020">>, <<"BIGINT", "BIGINT", "BIGINT">>, ","),
    Table(<<"id", "jan", "feb", "mar">>, <<"BIGINT", "DOUBLE", "DOUBLE", "DOUBLE">>, ","),
    Table(<<"2019", "2020", "2021", "jan", "feb", "mar">>,
          <<"BIGINT", "BIGINT", "BIGINT", "BIGINT", "BIGINT", "BIGINT">>, ","),
    Table(<<"id", "id">>, <<"BIGINT", "VARCHAR">>, ","),
    Table(<<"id", "a b">>, <<"BIGINT", "VARCHAR">>, ","),
    Table(<<"cod_istat", "nuts3">>, <<"VARCHAR", "VARCHAR">>, ","),
    Table(<<"id">>, <<"VARCHAR">>, ",") }

\* The regular expressions of the module, as the sets of header names of the
\* vocabulary above (and of the engine's and the joined names below) they match.
YEAR_COLUMN == {"2019", "2020", "2021", "2022"}          \* ^(19|20)\d{2}$
MONTH_NAMES == {"jan", "feb", "mar"}                     \* ^(jan|feb|m[aä]r|...)
CODE_COL_PAT == {"cod_istat", "nuts3"}                   \* (code|cod_|...|nuts|...|istat|...)
HasSpace == {"a b"}                                      \* " " in name
HasSpecialChars == {"id;name", "a b"}                    \* [^a-zA-Z0-9_À-ÿ\-]
StartsWithDigit == {"2019", "2020", "2021", "2022"}      \* ^\d
NutsName == {"nuts3"}                                    \* "nuts" in col_lower
IstatName == {"cod_istat"}                               \* (istat|comune|municipal)
CountryName == {}                                        \* (country_code|iso_country|nation)

RECURSIVE JoinWith(_, _)
JoinWith(names, delim) ==
  IF Len(names) = 0 THEN ""
  ELSE IF Len(names) = 1 THEN names[1]
  ELSE names[1] \o delim \o JoinWith(Tail(names), delim)

\* _read_raw_headers: the first line of the file split at `separator`.
_read_raw_headers(t, separator, readable) ==
  IF ~readable THEN <<>>
  ELSE IF Len(t.raw) = 0 THEN <<>>
  ELSE IF separator = t.delim \/ Len(t.raw) = 1 THEN t.raw
  ELSE <<JoinWith(t.raw, t.delim)>>

Count(names, n) == Cardinality({i \in 1..Len(names) : names[i] = n})

\* The engine's column names (module docstring: a header that starts with a
\* digit is renamed 'column<i>'; a repeated header gets a suffix).
DuckName(raw, i) ==
  IF raw[i] \in StartsWithDigit THEN "column" \o ToString(i - 1)
  ELSE IF \E j \in 1..(i - 1) : raw[j] = raw[i] THEN raw[i] \o "_1"
  ELSE raw[i]

DuckColumns(t) ==
  [i \in 1..Len(t.raw) |-> [name |-> DuckName(t.raw, i), type |-> t.types[i]]]

ColumnNames(cols) == [i \in 1..Len(cols) |-> cols[i].name]

SelectNames(names, S) == SelectSeq(names, LAMBDA n : n \in S)

\* The nominal input: a two-column UTF-8 file with one data row. Every other
\* table, like every other deviation of a run, counts as one anomaly.
NominalTable == Table(<<"id", "name">>, <<"BIGINT", "VARCHAR">>, ",")
TableCost(t) == IF t = NominalTable THEN 0 ELSE 1
RowsCost(rows) == IF rows = 1 THEN 0 ELSE 1

\* ------------------------------------------------------------------- state

VARIABLES
  entry,            \* the entry point: "csv" (cli_csv.main), ...
  pc,               \* position of the run
  anomalies,        \* irregularities met so far (bounded by MaxAnomalies)
  table,            \* the table the engine reads from the file
  path,             \* CsvValidator.path: "orig" or "tmp"
  orig_path,        \* CsvValidator._orig_path: "none" or "orig"
  tmp_state,        \* the UTF-8 temporary copy: "none", "exists", "deleted"
  unlinks,          \* how many times the temporary copy was unlinked
  lenient,          \* CsvValidator._lenient
  row_count,        \* CsvValidator._row_count
  separator,        \* CsvValidator._separator
  raw_headers,      \* CsvValidator._raw_headers
  duckdb_columns,   \* CsvValidator._duckdb_columns
  attempts,         \* the steps of the ladder phase 0 took, in order, each with
                    \* its result (the detection with the encoding it returned)
  trace,            \* the phase methods run() called, in order
  executed,         \* the checks of phases 1-4 that were executed
  failed,           \* the checks whose external call failed
  csv_report,       \* CsvValidator.report
  report,           \* the report of the entry point
  exit_code,        \* the exit code of the entry point; -1 before it exits
  exported,         \* the report as to_dict() exports it at the exit
  file,             \* what phase 0 found at the path: "unread" before it looks
  metadata,         \* the CKAN record (package_show result)
  check_urls,       \* cli_ckan option --check-urls / --no-check-urls
  download,         \* cli_ckan option --download
  requests,         \* the HTTP requests of the accessibility check with their
                    \* answers, in order
  download_state,   \* the downloaded CSV: "none", "written", "deleted"
  emitted,          \* the codes of all findings the validator ever reported
  has_bom,          \* what _has_bom(path) gave in phase 1: "unread", "no", "yes", "fail"
  defects,          \* ScoreSpec: a set of non-ok finding codes
  earned            \* ScoreSpec: the three file dimensions computed from `defects`

csvvars == <<table, path, orig_path, tmp_state, unlinks, lenient, row_count,
             separator, raw_headers, duckdb_columns, attempts, trace, executed,
             failed, csv_report, file, emitted, has_bom>>
ckanvars == <<metadata, check_urls, download, requests, download_state>>
scorevars == <<defects, earned>>
vars == <<entry, pc, anomalies, csvvars, ckanvars, report, exit_code, exported,
          scorevars>>

\* ------------------------------------------------ inputs within the budget

\* Inputs are described field by field, <<name, nominal value, other values...>>.
\* The ways to give each of `fields` a value with at most k values not nominal;
\* each is a pair <<values, deviations>>.
RECURSIVE Choices(_, _)
Choices(fields, k) ==
  IF Len(fields) = 0 THEN {<<<<>>, 0>>}
  ELSE UNION {{<<<<Head(fields)[j]>> \o rest[1], rest[2] + (IF j = 2 THEN 0 ELSE 1)>> :
                 rest \in Choices(Tail(fields), IF j = 2 THEN k ELSE k - 1)} :
              j \in IF k > 0 THEN 2..Len(Head(fields)) ELSE {2}}

\* ------------------------------------------- CsvValidator._phase0_blockers

\* What is at the path: nothing, a file of 0 bytes, a file with a null byte in
\* its first 8192 bytes, a JSON document, or other text. Phase 0 does not look
\* at what kind of text it is given.
FileKind(in) ==
  IF ~in.exists THEN "missing" ELSE IF in.size0 THEN "empty"
  ELSE IF in.null_byte THEN "binary" ELSE IF in.json THEN "json" ELSE "text"

\* What the engine reads from the one-line document {"key": "value"}: one column.
JsonTable == Table(<<"{key: value}">>, <<"VARCHAR">>, ",")

\* tempfile.mktemp(suffix=".csv") (line 226): a name that differs from run to run.
TmpNames == {"/tmp/tmpa1.csv", "/tmp/tmpb2.csv"}

\* The inputs of phase 0 that differ in what phase 0 does with them.
Nominal0 ==
  [exists |-> TRUE, size0 |-> FALSE, null_byte |-> FALSE, strict |-> "ok",
   lenient |-> "ok", enc |-> "utf_8", reparse |-> "ok", table |-> NominalTable,
   rows |-> 1, mktemp |-> "/tmp/tmpa1.csv", json |-> FALSE]

Phase0Cases ==
  {[Nominal0 EXCEPT !.exists = FALSE], [Nominal0 EXCEPT !.size0 = TRUE],
   [Nominal0 EXCEPT !.null_byte = TRUE]}
  \cup {[Nominal0 EXCEPT !.strict = s, !.table = t, !.rows = n] :
          s \in {"ok", "fail"}, t \in Tables, n \in 0..MaxRows}
  \cup {[Nominal0 EXCEPT !.json = TRUE, !.table = JsonTable, !.rows = n] :
          n \in 0..MaxRows}
  \cup {[Nominal0 EXCEPT !.json = TRUE, !.strict = "fail", !.lenient = "fail",
                         !.enc = "ascii"]}
  \cup {[Nominal0 EXCEPT !.strict = "fail", !.lenient = "fail", !.enc = e] :
          e \in {"ascii", "unknown"}}
  \cup {[Nominal0 EXCEPT !.strict = "fail", !.lenient = "fail", !.enc = e,
                         !.reparse = "fail", !.mktemp = m] :
          e \in {"utf_8", "cp1252"}, m \in TmpNames}
  \cup {[Nominal0 EXCEPT !.strict = "fail", !.lenient = "fail", !.enc = e,
                         !.table = t, !.rows = n, !.mktemp = m] :
          e \in {"utf_8", "cp1252"}, t \in Tables, n \in 0..MaxRows, m \in TmpNames}

\* The checks after a successful parse with the column check made first.
Phase0Loaded_columns_first(o, rows, cols) ==
  IF cols <= 1 THEN
    [o EXCEPT !.report = blocker(@, P0, "trivial_structure", <<ToString(cols)>>)]
  ELSE IF rows = 0 THEN
    [o EXCEPT !.report = blocker(@, P0, "no_data_rows", <<>>)]
  ELSE
    [o EXCEPT !.report = ok(@, P0, "parseable", <<ToString(rows), ToString(cols)>>),
              !.row_count = rows]

\* Lines 249-256: the checks after a successful parse.
Phase0Loaded(o, rows, cols) ==
  IF rows = 0 THEN
    [o EXCEPT !.report = blocker(@, P0, "no_data_rows", <<>>)]
  ELSE IF cols <= 1 THEN
    [o EXCEPT !.report = blocker(@, P0, "trivial_structure", <<ToString(cols)>>)]
  ELSE
    [o EXCEPT !.report = ok(@, P0, "parseable", <<ToString(rows), ToString(cols)>>),
              !.row_count = rows]

\* The message of csv_unparseable is the text of the exception (line 246); an
\* error of the engine or of the file system names the file it was given.
_phase0_blockers(r, in) ==
  LET o == [report |-> r, lenient |-> FALSE, tmp_written |-> FALSE,
            swapped |-> FALSE, loaded |-> FALSE, row_count |-> 0,
            attempts |-> <<>>, cost |-> 0]
      rows == in.rows
      cols == Len(in.table.types)
      tc == TableCost(in.table) + RowsCost(in.rows)
  IN
  IF ~in.exists THEN
    [o EXCEPT !.report = blocker(r, P0, "file_not_found", <<>>), !.cost = 1]
  ELSE IF in.size0 THEN
    [o EXCEPT !.report = blocker(r, P0, "file_empty", <<>>), !.cost = 1]
  ELSE IF in.null_byte THEN
    [o EXCEPT !.report = blocker(r, P0, "file_binary", <<>>), !.cost = 1]
  ELSE IF in.strict = "ok" THEN
    Phase0Loaded([o EXCEPT !.attempts = <<<<"strict", "ok">>>>, !.loaded = TRUE, !.cost = tc],
                 rows, cols)
  ELSE IF in.lenient = "ok" THEN
    Phase0Loaded([o EXCEPT !.attempts = <<<<"strict", "failed">>, <<"lenient", "ok">>>>, !.loaded = TRUE,
                           !.lenient = TRUE, !.cost = 1 + tc,
                           !.report = minor(r, P0, "csv_needs_lenient_parsing", <<>>)],
                 rows, cols)
  ELSE IF in.enc \in {"utf-8", "utf8", "ascii", "unknown"} THEN
    [o EXCEPT !.attempts = <<<<"strict", "failed">>, <<"lenient", "failed">>,
                             <<"detect", in.enc>>>>,
              !.cost = 1,
              !.report = blocker(r, P0, "csv_unparseable", <<"orig">>)]
  ELSE IF in.reparse = "ok" THEN
    Phase0Loaded([o EXCEPT !.attempts = <<<<"strict", "failed">>, <<"lenient", "failed">>,
                                         <<"detect", in.enc>>, <<"reencoded", "ok">>>>,
                           !.loaded = TRUE, !.tmp_written = TRUE, !.swapped = TRUE,
                           !.cost = 1 + tc,
                           !.report = major(r, P0, "encoding_not_utf8", <<in.enc>>)],
                 rows, cols)
  ELSE
    [o EXCEPT !.attempts = <<<<"strict", "failed">>, <<"lenient", "failed">>,
                             <<"detect", in.enc>>, <<"reencoded", "failed">>>>,
              !.tmp_written = TRUE, !.cost = 2,
              !.report = blocker(r, P0, "csv_unparseable", <<in.mktemp>>)]


\* ------------------------------------------------- phases 1-4: bookkeeping

\* The running state of one phase method: the report, the validator's fields
\* it sets, which checks ran, which external calls failed, and whether an
\* exception left the method.
PhaseState(r, st) ==
  [report |-> r, separator |-> st.separator, raw_headers |-> st.raw_headers,
   duckdb_columns |-> st.duckdb_columns, executed |-> st.executed,
   failed |-> st.failed, raised |-> FALSE, cost |-> 0]

Ran(s, check) == [s EXCEPT !.executed = @ \cup {check}]
\* The external call of `check` failed and the code caught the failure.
Caught(s, check) ==
  [s EXCEPT !.executed = @ \cup {check}, !.failed = @ \cup {check}, !.cost = @ + 1]
\* The external call of `check` failed outside any try block.
Raised(s, check) ==
  [s EXCEPT !.executed = @ \cup {check}, !.failed = @ \cup {check}, !.cost = @ + 1,
            !.raised = TRUE]
Defect(s) == [s EXCEPT !.cost = @ + 1]
Report(s, r) == [s EXCEPT !.report = r]

\* ------------------------------------------- CsvValidator._phase1_structure

\* enc.replace("_", "-").lower()
EncNorm(enc) ==
  CASE enc = "utf_8" -> "utf-8"
    [] enc = "utf_8_sig" -> "utf-8-sig"
    [] OTHER -> enc

\* The encoding check made on the UTF-8 copy too.
Phase1Encoding_always(s, in, reencoded) ==
  IF in.detect = "fail" THEN Raised(s, "encoding")
  ELSE IF EncNorm(in.enc) \in {"utf-8", "utf-8-sig", "ascii", "us-ascii"} THEN
    LET s1 == Ran(Report(s, ok(s.report, P1, "encoding_utf8", <<>>)), "encoding")
    IN  IF in.enc = "utf_8" THEN s1 ELSE Defect(s1)
  ELSE
    Defect(Ran(Report(s, major(s.report, P1, "encoding_not_utf8", <<EncNorm(in.enc)>>)),
               "encoding"))

\* Lines 263-273: the encoding check, skipped when phase 0 re-encoded the file.
Phase1Encoding(s, in, reencoded) ==
  IF reencoded THEN s
  ELSE IF in.detect = "fail" THEN Raised(s, "encoding")
  ELSE IF EncNorm(in.enc) \in {"utf-8", "utf-8-sig", "ascii", "us-ascii"} THEN
    LET s1 == Ran(Report(s, ok(s.report, P1, "encoding_utf8", <<>>)), "encoding")
    IN  IF in.enc = "utf_8" THEN s1 ELSE Defect(s1)
  ELSE
    Defect(Ran(Report(s, major(s.report, P1, "encoding_not_utf8", <<EncNorm(in.enc)>>)),
               "encoding"))

\* The BOM check with a BOM reported as a blocker.
Phase1Bom_blocker(s, in) ==
  IF s.raised THEN s
  ELSE IF in.bom = "fail" THEN Raised(s, "bom")
  ELSE IF in.bom = "yes" THEN
    Defect(Ran(Report(s, blocker(s.report, P1, "bom_present", <<>>)), "bom"))
  ELSE Ran(Report(s, ok(s.report, P1, "no_bom", <<>>)), "bom")

\* Lines 275-280.
Phase1Bom(s, in) ==
  IF s.raised THEN s
  ELSE IF in.bom = "fail" THEN Raised(s, "bom")
  ELSE IF in.bom = "yes" THEN
    Defect(Ran(Report(s, major(s.report, P1, "bom_present", <<>>)), "bom"))
  ELSE Ran(Report(s, ok(s.report, P1, "no_bom", <<>>)), "bom")

\* Lines 282-286.
Phase1LineEndings(s, in) ==
  IF s.raised THEN s
  ELSE IF in.crlf = "fail" THEN Raised(s, "line_endings")
  ELSE IF in.crlf = "yes" THEN
    Defect(Ran(Report(s, ok(s.report, P1, "crlf_endings", <<>>)), "line_endings"))
  ELSE Ran(Report(s, ok(s.report, P1, "lf_endings", <<>>)), "line_endings")

\* Lines 288-299: sniff_csv; a failure leaves the separator at ",".
Phase1Sniff(s, in, t) ==
  IF s.raised THEN s
  ELSE IF in.sniff = "fail" THEN [Caught(s, "sniff") EXCEPT !.separator = ","]
  ELSE IF in.sniff = "norow" THEN Defect(Ran(s, "sniff"))
  ELSE IF in.sniff = "noheader" THEN
    Defect(Ran([s EXCEPT !.separator = t.delim,
                         !.report = major(s.report, P1, "no_header", <<>>)], "sniff"))
  ELSE Ran([s EXCEPT !.separator = t.delim], "sniff")

\* Lines 301-305: DESCRIBE, outside any try block.
Phase1Schema(s, in, t) ==
  IF s.raised THEN s
  ELSE IF in.describe = "fail" THEN Raised(s, "schema")
  ELSE Ran([s EXCEPT !.duckdb_columns = DuckColumns(t)], "schema")

\* Lines 307-312.
Phase1Headers(s, in, t, rows) ==
  IF s.raised THEN s
  ELSE
    LET raw == _read_raw_headers(t, s.separator, in.rawread = "ok")
        s1 == IF in.rawread = "ok" THEN Ran(s, "raw_headers")
              ELSE Caught(s, "raw_headers")
        ncols == IF Len(raw) # 0 THEN Len(raw) ELSE Len(s.duckdb_columns)
    IN  [s1 EXCEPT !.raw_headers = raw,
                   !.report = ok(ok(s.report, P1, "separator", <<s.separator>>),
                                 P1, "dimensions", <<ToString(rows), ToString(ncols)>>)]

_phase1_structure(s, in, t, rows, reencoded) ==
  Phase1Headers(
    Phase1Schema(
      Phase1Sniff(
        Phase1LineEndings(
          Phase1Bom(
            Phase1Encoding(s, in, reencoded), in), in), in, t), in, t), in, t, rows)

\* --------------------------------------------- CsvValidator._phase2_columns

Phase2Inputs == [tail : {"none", "aggregate", "fail"}, head : {"none", "footnote", "fail"}]

\* Lines 322-331.
Phase2Duplicates(s, names) ==
  LET dupes == {names[i] : i \in {j \in 1..Len(names) : Count(names, names[j]) > 1}}
  IN  Ran(Report(s, IF dupes # {}
                    THEN major(s.report, P2, "duplicate_columns", <<>>)
                    ELSE ok(s.report, P2, "no_duplicate_columns", <<>>)), "duplicates")

\* Lines 333-348.
Phase2Names(s, names) ==
  LET bad == SelectSeq(names, LAMBDA n :
               n \in HasSpace \/ n \in HasSpecialChars \/ n \in StartsWithDigit)
  IN  Ran(Report(s, IF Len(bad) > 0
                    THEN minor(s.report, P2, "bad_column_names", <<ToString(Len(bad))>>)
                    ELSE ok(s.report, P2, "column_names_ok", <<>>)), "names")

\* A faulty variant of Phase2Wide (two pattern columns are enough); C12 fails with it.
Phase2Wide_two(s, names) ==
  LET year_cols == SelectNames(names, YEAR_COLUMN)
      month_cols == SelectNames(names, MONTH_NAMES)
  IN  Ran(Report(s,
        IF Len(year_cols) >= 2 THEN
          suppress(major(s.report, P2, "wide_format_years", <<ToString(Len(year_cols))>>),
                   "no_header")
        ELSE IF Len(month_cols) >= 2 THEN
          suppress(major(s.report, P2, "wide_format_months", <<ToString(Len(month_cols))>>),
                   "no_header")
        ELSE ok(s.report, P2, "no_wide_format", <<>>)), "wide")

\* Lines 350-365: wide format; on a hit the no_header finding is retracted.
Phase2Wide(s, names) ==
  LET year_cols == SelectNames(names, YEAR_COLUMN)
      month_cols == SelectNames(names, MONTH_NAMES)
  IN  Ran(Report(s,
        IF Len(year_cols) >= 3 THEN
          suppress(major(s.report, P2, "wide_format_years", <<ToString(Len(year_cols))>>),
                   "no_header")
        ELSE IF Len(month_cols) >= 3 THEN
          suppress(major(s.report, P2, "wide_format_months", <<ToString(Len(month_cols))>>),
                   "no_header")
        ELSE ok(s.report, P2, "no_wide_format", <<>>)), "wide")

\* Lines 367-375: _tail_lines returns [] when the read fails.
Phase2Aggregate(s, in) ==
  IF in.tail = "aggregate" THEN
    Defect(Ran(Report(s, major(s.report, P2, "aggregate_rows", <<>>)), "aggregate"))
  ELSE
    LET s1 == IF in.tail = "fail" THEN Caught(s, "aggregate") ELSE Ran(s, "aggregate")
    IN  Report(s1, ok(s.report, P2, "no_aggregate_rows", <<>>))

\* Lines 377-383: _head_lines returns [] when the read fails.
Phase2Footnotes(s, in) ==
  IF in.head = "footnote" THEN
    Defect(Ran(Report(s, minor(s.report, P2, "footnote_markers", <<>>)), "footnotes"))
  ELSE IF in.head = "fail" THEN Caught(s, "footnotes")
  ELSE Ran(s, "footnotes")

_phase2_columns(s, in) ==
  LET names == IF Len(s.raw_headers) # 0 THEN s.raw_headers
               ELSE ColumnNames(s.duckdb_columns)
  IN  Phase2Footnotes(
        Phase2Aggregate(
          Phase2Wide(Phase2Names(Phase2Duplicates(s, names), names), names), in), in)


\* --------------------------------------------- CsvValidator._phase3_content

\* What one engine query of a detector gives: a failure, no row, or rows.
Outcomes == {"fail", "none", "hit"}

VarcharColumns(cols) ==
  SelectSeq(cols, LAMBDA c : c.type \in {"VARCHAR", "TEXT"})

\* varchar_cats[:20]
MaxScannedColumns == 20
Scanned(cols) ==
  IF Len(cols) <= MaxScannedColumns THEN cols ELSE SubSeq(cols, 1, MaxScannedColumns)

\* Lines 392-402 and _check_null_rates (584-595).
Phase3Summarize(s, in) ==
  IF in.summarize = "fail" THEN
    Caught(Report(s, minor(s.report, P3, "summarize_failed", <<>>)), "summarize")
  ELSE IF in.summarize = "high" THEN
    Defect(Ran(Report(s, major(ok(s.report, P3, "summarize_ok", <<>>),
                               P3, "high_null_rate", <<>>)), "summarize"))
  ELSE Ran(Report(s, ok(s.report, P3, "summarize_ok", <<>>)), "summarize")

\* A detector that reports `bad_code` on rows and `ok_code` otherwise; a
\* failing query counts as no row (e.g. lines 413-431).
Phase3Detector(s, outcome, check, severity, bad_code, ok_code) ==
  IF outcome = "hit" THEN
    Defect(Ran(Report(s, add(s.report, Finding(severity, P3, bad_code, <<>>))), check))
  ELSE
    LET s1 == IF outcome = "fail" THEN Caught(s, check) ELSE Ran(s, check)
    IN  Report(s1, ok(s.report, P3, ok_code, <<>>))

\* Lines 497-517: only when the engine typed some column as text; no ok finding.
Phase3Numeric(s, in) ==
  IF Len(VarcharColumns(s.duckdb_columns)) = 0 THEN s
  ELSE IF in.numeric = "hit" THEN
    Defect(Ran(Report(s, major(s.report, P3, "numeric_as_varchar", <<>>)),
               "numeric_as_varchar"))
  ELSE IF in.numeric = "fail" THEN Caught(s, "numeric_as_varchar")
  ELSE Ran(s, "numeric_as_varchar")

\* One query per scanned text column; a failing query skips the column.
RECURSIVE ColumnLoop(_, _, _, _)
ColumnLoop(s, outcomes, i, check) ==
  IF i > Len(outcomes) THEN Ran(s, check)
  ELSE ColumnLoop(IF outcomes[i] = "fail" THEN Caught(s, check)
                  ELSE IF outcomes[i] = "hit" THEN Defect(s) ELSE s,
                  outcomes, i + 1, check)

Hits(outcomes) == Cardinality({i \in 1..Len(outcomes) : outcomes[i] = "hit"})

\* Lines 519-539.
Phase3Whitespace(s, in) ==
  LET s1 == ColumnLoop(s, in.whitespace, 1, "whitespace")
  IN  Report(s1, IF Hits(in.whitespace) > 0
                 THEN minor(s.report, P3, "trailing_whitespace_values",
                            <<ToString(Hits(in.whitespace))>>)
                 ELSE ok(s.report, P3, "no_trailing_whitespace", <<>>))

\* Lines 541-582.
Phase3Fuzzy(s, in) ==
  LET s1 == ColumnLoop(s, in.fuzzy, 1, "fuzzy")
  IN  Report(s1, IF Hits(in.fuzzy) > 0
                 THEN minor(s.report, P3, "fuzzy_category_values",
                            <<ToString(Hits(in.fuzzy))>>)
                 ELSE ok(s.report, P3, "no_fuzzy_category_values", <<>>))

\* Lines 404-411: the all-text load; on failure the method returns.
Phase3VarcharLoad(s, in) ==
  IF in.varchar_load = "fail" THEN
    Caught(Report(s, minor(s.report, P3, "varchar_load_failed", <<>>)), "varchar_load")
  ELSE Ran(s, "varchar_load")

_phase3_content(s, in) ==
  LET s1 == Phase3VarcharLoad(Phase3Summarize(s, in), in)
  IN  IF in.varchar_load = "fail" THEN s1
      ELSE
        Phase3Fuzzy(
         Phase3Whitespace(
          Phase3Numeric(
           Phase3Detector(
            Phase3Detector(
             Phase3Detector(
              Phase3Detector(s1, in.comma, "comma_decimal", MAJOR,
                             "comma_decimal", "no_comma_decimal"),
              in.dates, "non_iso_date", MAJOR, "non_iso_date", "iso_dates"),
             in.units, "units_in_cells", MAJOR, "units_in_cells", "no_units_in_cells"),
            in.placeholders, "placeholder_values", MAJOR,
            "placeholder_values", "no_placeholder_values"),
           in), in), in)

\* ----------------------------------------------- CsvValidator._phase4_codes

\* Sampled values of a code column, and the value patterns as sets.
ValueSamples == {<<"058091">>, <<"58091">>, <<"ITC4">>, <<"abc">>}
NutsValue == {"ITC4"}          \* ^[A-Z]{2}[0-9A-Z]{1,3}$
IstatValue == {"058091"}       \* ^\d{6}$
ShortIstatValue == {"58091"}   \* ^\d{1,5}$
CountryValue == {}             \* ^[A-Z]{2}$

\* code_cols[:10]
MaxCodeColumns == 10

Phase4Inputs(ncode) == [1..ncode -> {<<"fail">>} \cup ValueSamples]

\* Lines 633-654: the issues one column's values raise.
ColumnIssues(raw_col, values) ==
  LET nuts == IF raw_col \in NutsName /\ Len(SelectSeq(values, LAMBDA v : v \notin NutsValue)) > 0
              THEN <<"nuts">> ELSE <<>>
      short == SelectSeq(values, LAMBDA v : v \in ShortIstatValue)
      bad == SelectSeq(values, LAMBDA v : v \notin IstatValue)
      istat == IF raw_col \notin IstatName THEN <<>>
               ELSE IF Len(short) > 0 THEN <<"istat_short">>
               ELSE IF Len(bad) > 0 THEN <<"istat_bad">> ELSE <<>>
      country == IF raw_col \in CountryName
                   /\ Len(SelectSeq(values, LAMBDA v : v \notin CountryValue)) > 0
                 THEN <<"country">> ELSE <<>>
  IN  nuts \o istat \o country

RECURSIVE CodeLoop(_, _, _, _, _)
CodeLoop(s, code_cols, in, i, issues) ==
  IF i > Len(code_cols) \/ i > MaxCodeColumns THEN
    Ran(Report(s, IF Len(issues) > 0
                  THEN major(s.report, P4, "invalid_reference_codes",
                             <<ToString(Len(issues))>>)
                  ELSE ok(s.report, P4, "reference_codes_ok", <<>>)), "codes")
  ELSE IF in[i] = <<"fail">> THEN CodeLoop(Caught(s, "codes"), code_cols, in, i + 1, issues)
  ELSE
    LET found == ColumnIssues(code_cols[i], in[i])
    IN  CodeLoop(IF Len(found) > 0 THEN Defect(s) ELSE s, code_cols, in, i + 1,
                 issues \o found)

CodeColumns(s) ==
  SelectNames(IF Len(s.raw_headers) # 0 THEN s.raw_headers
              ELSE ColumnNames(s.duckdb_columns), CODE_COL_PAT)

_phase4_codes(s, in) ==
  IF Len(CodeColumns(s)) = 0 THEN
    Ran(Report(s, ok(s.report, P4, "no_code_columns", <<>>)), "codes")
  ELSE CodeLoop(s, CodeColumns(s), in, 1, <<>>)

\* --------------------------------------------- CsvValidator._compute_scores

\* A faulty variant of Deduct (the points are credited); C8 fails with it.
Deduct_credit(codes, code, points) == IF code \in codes THEN 0 - points ELSE 0
Deduct(codes, code, points) == IF code \in codes THEN points ELSE 0
\* A faulty variant of Max0 (no clamp at zero); C7 fails with it.
Max0_unclamped(n) == n
Max0(n) == IF n > 0 THEN n ELSE 0

FormatScore(codes) ==
  Max0(15 - Deduct(codes, "encoding_not_utf8", 10)
          - Deduct(codes, "bom_present", 5)
          - Deduct(codes, "no_header", 3))

StructureScore(codes) ==
  Max0(20 - Deduct(codes, "wide_format_years", 5)
          - Deduct(codes, "wide_format_months", 5)
          - Deduct(codes, "duplicate_columns", 5)
          - Deduct(codes, "aggregate_rows", 5)
          - Deduct(codes, "bad_column_names", 3)
          - Deduct(codes, "footnote_markers", 2))

ContentScore(codes) ==
  Max0(25 - Deduct(codes, "comma_decimal", 5)
          - Deduct(codes, "non_iso_date", 5)
          - Deduct(codes, "high_null_rate", 5)
          - Deduct(codes, "units_in_cells", 3)
          - Deduct(codes, "placeholder_values", 3)
          - Deduct(codes, "invalid_reference_codes", 4)
          - Deduct(codes, "numeric_as_varchar", 2)
          - Deduct(codes, "fuzzy_category_values", 2))

FORMAT == "File format compliance"
STRUCTURE == "Data structure quality"
CONTENT == "Data content quality"

\* _compute_scores on the codes of every finding the run added, retracted or not.
_compute_scores_emitted(r) ==
  LET codes == Codes(NonOk(r.findings)) \cup (emitted \cap {"no_header"})
  IN  append_dimension(
        append_dimension(
          append_dimension(r, ScoreDimension(FORMAT, 15, FormatScore(codes), <<>>)),
          ScoreDimension(STRUCTURE, 20, StructureScore(codes), <<>>)),
        ScoreDimension(CONTENT, 25, ContentScore(codes), <<>>))

_compute_scores(r) ==
  LET codes == Codes(NonOk(r.findings))
  IN  append_dimension(
        append_dimension(
          append_dimension(r, ScoreDimension(FORMAT, 15, FormatScore(codes), <<>>)),
          ScoreDimension(STRUCTURE, 20, StructureScore(codes), <<>>)),
        ScoreDimension(CONTENT, 25, ContentScore(codes), <<>>))

\* CsvValidator.run, lines 158-160: the dimensions of a run halted by a blocker.
BlockedDimensions(r) ==
  append_dimension(
    append_dimension(
      append_dimension(r, ScoreDimension(FORMAT, 15, 0, <<>>)),
      ScoreDimension(STRUCTURE, 20, 0, <<>>)),
    ScoreDimension(CONTENT, 25, 0, <<>>))


\* ------------------------------------------- metadata_validator.py: inputs

PHASE5 == "phase5_metadata"
PHASE6 == "phase6_consistency"

LongTitle ==
  "Popolazione residente per comune, sesso e classe di eta al primo gennaio di ogni anno"
LongNotes ==
  "Serie storica della popolazione residente nei comuni italiani, per sesso e classe di eta, dal 2002."

\* str.strip() on the values of the vocabulary.
Strip(v) == IF v = " " THEN "" ELSE v

\* The regular expressions on date values, as the sets of values they match.
ISO_DATE_RE == {"2024-01-01", "2024-06-01", "2024-13-45"}         \* ^\d{4}-\d{2}-\d{2}$
NON_ISO_DATE_RE == {"07/12/2021", "07-12-2021", "07.12.2021"}     \* ^\d{1,2}[-/\.]\d{1,2}[-/\.]\d{4}$
\* The values datetime.strptime(v, "%Y-%m-%d") accepts.
ValidDate == {"2024-01-01", "2024-06-01"}
\* UNSTABLE_URL_RE
UNSTABLE_URL_RE == {"https://bit.ly/3xYz"}
\* The identifier pattern of detect_profile: ^[a-z]_[a-z0-9]+:
ItalianIdentifier == {"c_h501:popolazione"}

\* PORTAL_PROFILES: the profile of the first pattern found in the portal URL.
PortalProfile(portal_url) ==
  CASE portal_url = "https://dati.gov.it/opendata" -> "DCAT-AP_IT"
    [] portal_url = "https://www.govdata.de" -> "DCAT-AP_DE"
    [] portal_url = "https://data.overheid.nl" -> "DCAT-AP_DONL"
    [] portal_url = "https://data.gov.uk" -> "DCAT-AP_UK"
    [] OTHER -> ""

\* PROFILE_EXTRA_FIELDS: (extras key, cardinality) per profile.
PROFILE_EXTRA_FIELDS(profile) ==
  CASE profile = "DCAT-AP_IT" ->
         <<<<"holder_name", "mandatory">>, <<"identifier", "mandatory">>,
           <<"theme", "mandatory">>>>
    [] profile \in {"DCAT-AP_DE", "DCAT-AP_BE", "DCAT-AP_ES"} ->
         <<<<"identifier", "mandatory">>>>
    [] profile = "DCAT-AP_DONL" ->
         <<<<"identifier", "mandatory">>, <<"geographical_geonames_url", "mandatory">>>>
    [] OTHER -> <<>>

\* One value per field, the nominal value first.
MetaFields ==
  << <<"portal_url", "https://example.org", "https://dati.gov.it/opendata",
       "https://www.govdata.de", "https://data.overheid.nl", "https://data.gov.uk">>,
     <<"title", "Dataset di test", "", "Uguale", LongTitle>>,
     <<"notes", LongNotes, "", " ", "Breve.", "Uguale", LongTitle>>,
     <<"publisher", "Ente di test", "">>,
     <<"license_id", "CC-BY-4.0", "">>,
     <<"license_title", "", "Creative Commons Attribution">>,
     <<"tags", "3", "2">>,
     <<"issued", "", "2024-01-01">>,
     <<"modified", "", "2024-06-01">>,
     <<"x:issued", "2024-01-01", "", "2021-12-07T15:20:47.883135", "07/12/2021", "n.d.">>,
     <<"x:modified", "2024-06-01", "", "2022-03-10T09:27:04.895252", "07-12-2021",
       "2024-13-45">>,
     <<"x:dcat_issued", "", "2024-01-01">>,
     <<"x:dcat_modified", "", "2024-06-01">>,
     <<"x:frequency", "ANNUAL", "", "daily", "IRREGULAR">>,
     <<"x:accrualPeriodicity", "", "MONTHLY">>,
     <<"x:temporal_coverage", "2002-2024", "">>,
     <<"x:geographical_geonames_url", "", "https://www.geonames.org/3175395">>,
     <<"x:spatial", "Italia", "">>,
     <<"x:language", "ITA", "">>,
     <<"x:identifier", "popolazione-residente", "", "c_h501:popolazione">>,
     <<"x:holder_name", "", "Comune di Test">>,
     <<"x:theme", "", "SOCI">>,
     <<"x:encoding", "", "utf-8", "iso-8859-1">> >>

\* The fields of one resource, the nominal value first ("-" is an absent id).
ResourceFields ==
  << <<"id", "r", "-", "0a1b2c3d-e4f5">>,
     <<"format", "CSV", "", "JSON">>,
     <<"mimetype", "text/csv", "">>,
     <<"license_id", "CC-BY-4.0", "">>,
     <<"size", "1024", "", "n/a">>,
     <<"url", "https://example.org/data.csv", "", "https://bit.ly/3xYz",
       "https://example.org/data.json">> >>

FieldIndex(fields, name) == CHOOSE i \in 1..Len(fields) : fields[i][1] = name

TagsOf(n) == IF n = "3" THEN <<"a", "b", "c">> ELSE <<"a", "b">>

\* A resource of the CKAN record; its nominal id is "r<i>".
ResourceOf(values, i) ==
  LET v(name) == values[FieldIndex(ResourceFields, name)]
  IN  [id |-> IF v("id") = "r" THEN "r" \o ToString(i) ELSE v("id"),
       format |-> v("format"), mimetype |-> v("mimetype"),
       license_id |-> v("license_id"), size |-> v("size"), url |-> v("url")]

\* Up to MaxResources resources with at most k deviations; a record with other
\* than one resource deviates once more.
MaxResources == 2

RECURSIVE ResourceLists(_, _)
ResourceLists(n, k) ==
  IF n = 0 THEN {<<<<>>, 0>>}
  ELSE UNION {{<<rest[1] \o <<ResourceOf(c[1], n)>>, rest[2] + c[2]>> :
                 c \in Choices(ResourceFields, k - rest[2])} :
              rest \in ResourceLists(n - 1, k)}

Resources(k) ==
  UNION {IF n = 1 THEN ResourceLists(1, k)
         ELSE IF k = 0 THEN {}
         ELSE {<<l[1], l[2] + 1>> : l \in ResourceLists(n, k - 1)} :
         n \in 0..MaxResources}

ExtrasKeys ==
  {"issued", "modified", "dcat_issued", "dcat_modified", "frequency",
   "accrualPeriodicity", "temporal_coverage", "geographical_geonames_url", "spatial",
   "language", "identifier", "holder_name", "theme", "encoding"}

\* The CKAN record (package_show) of a choice of values, with the portal URL.
MetaOf(values, resources) ==
  LET v(name) == values[FieldIndex(MetaFields, name) ]
  IN  [portal_url |-> v("portal_url"), title |-> v("title"), notes |-> v("notes"),
       publisher |-> v("publisher"), license_id |-> v("license_id"),
       license_title |-> v("license_title"), tags |-> TagsOf(v("tags")),
       issued |-> v("issued"), modified |-> v("modified"),
       extras |-> [key \in ExtrasKeys |-> v("x:" \o key)],
       resources |-> resources]

\* A record with nothing filled in.
BareMeta ==
  MetaOf([i \in 1..Len(MetaFields) |->
            IF MetaFields[i][1] = "portal_url" THEN MetaFields[i][2]
            ELSE IF MetaFields[i][1] = "tags" THEN "2" ELSE ""], <<>>)

\* A record of a portal that gives its dates only under the extras keys
\* dcat_issued and dcat_modified.
DcatDatesMeta ==
  MetaOf([i \in 1..Len(MetaFields) |->
            CASE MetaFields[i][1] = "portal_url" -> "https://data.gov.uk"
              [] MetaFields[i][1] \in {"x:issued", "x:modified"} -> ""
              [] MetaFields[i][1] = "x:dcat_issued" -> "2024-01-01"
              [] MetaFields[i][1] = "x:dcat_modified" -> "2024-06-01"
              [] OTHER -> MetaFields[i][2]],
         <<ResourceOf([i \in 1..Len(ResourceFields) |-> ResourceFields[i][2]], 1)>>)

\* The records with at most k deviations, each with its number of deviations;
\* the bare record and the record with dcat_ dates count as one deviation each.
Metas(k) ==
  (IF k > 0 THEN {<<BareMeta, 1>>, <<DcatDatesMeta, 1>>} ELSE {})
  \cup UNION {{<<MetaOf(c[1], rs[1]), c[2] + rs[2]>> :
                 c \in Choices(MetaFields, k - rs[2])} :
              rs \in Resources(k)}

NoMeta == MetaOf([i \in 1..Len(MetaFields) |-> MetaFields[i][2]], <<>>)

\* ----------------------------------- metadata_validator.py: MetadataValidator

_extras_value(meta, key) ==
  IF key \in DOMAIN meta.extras THEN Strip(meta.extras[key]) ELSE ""

detect_profile(meta, portal_url) ==
  IF PortalProfile(portal_url) # "" THEN PortalProfile(portal_url)
  ELSE IF _extras_value(meta, "identifier") \in ItalianIdentifier THEN "DCAT-AP_IT"
  ELSE IF _extras_value(meta, "holder_name") # "" THEN "DCAT-AP_IT"
  ELSE "DCAT-AP_2x"

\* `a or b` on strings.
Or(a, b) == IF a # "" THEN a ELSE b

\* One check of phase 5: a finding and the points it costs.
Check5(st, severity, code, points) ==
  [report |-> add(st.report, Finding(severity, PHASE5, code, <<>>)),
   score |-> st.score - points]

\* Lines 118-128.
Phase5Title(st, meta) ==
  LET title == Strip(meta.title)
  IN  IF title = "" THEN Check5(st, MAJOR, "missing_title", 4)
      ELSE IF Len(title) < 10 THEN Check5(st, MINOR, "short_title", 0)
      ELSE Check5(st, OK, "title_ok", 0)

\* Lines 130-147.
Phase5Description(st, meta) ==
  LET title == Strip(meta.title)
      notes == Strip(meta.notes)
  IN  IF notes = "" THEN Check5(st, MAJOR, "missing_description", 4)
      ELSE IF Len(notes) < 80 THEN Check5(st, MAJOR, "short_description", 2)
      ELSE IF notes = title THEN Check5(st, MAJOR, "description_equals_title", 3)
      ELSE Check5(st, OK, "description_ok", 0)

\* Lines 149-157.
Phase5Publisher(st, meta) ==
  IF meta.publisher = "" THEN Check5(st, MAJOR, "missing_publisher", 4)
  ELSE Check5(st, OK, "publisher_ok", 0)

\* A faulty variant of Phase5License (2 points instead of 4); C15 fails with it.
Phase5License_two_points(st, meta) ==
  IF Strip(Or(meta.license_id, meta.license_title)) = ""
  THEN Check5(st, MAJOR, "missing_license", 2)
  ELSE Check5(st, OK, "license_ok", 0)

\* Lines 159-166.
Phase5License(st, meta) ==
  IF Strip(Or(meta.license_id, meta.license_title)) = ""
  THEN Check5(st, MAJOR, "missing_license", 4)
  ELSE Check5(st, OK, "license_ok", 0)

\* Lines 168-177.
Phase5Tags(st, meta) ==
  IF Len(meta.tags) < 3 THEN Check5(st, MINOR, "few_tags", 1)
  ELSE Check5(st, OK, "tags_ok", 0)

\* Lines 180-197, one date key.
Phase5Date(st, meta, date_key) ==
  LET val == Strip(Or(meta[date_key], _extras_value(meta, date_key)))
  IN  IF val = "" THEN Check5(st, MAJOR, "missing_" \o date_key, 2)
      ELSE IF val \in NON_ISO_DATE_RE THEN Check5(st, MAJOR, "non_iso_" \o date_key, 2)
      ELSE IF val \notin ISO_DATE_RE THEN Check5(st, MINOR, "invalid_" \o date_key, 1)
      ELSE Check5(st, OK, date_key \o "_ok", 0)

\* Lines 199-206.
Phase5Frequency(st, meta) ==
  IF Or(_extras_value(meta, "frequency"), _extras_value(meta, "accrualPeriodicity")) = ""
  THEN Check5(st, MINOR, "missing_frequency", 0)
  ELSE Check5(st, OK, "frequency_ok", 0)

\* Lines 208-221.
Phase5Coverage(st, meta) ==
  LET st1 == IF _extras_value(meta, "temporal_coverage") = ""
             THEN Check5(st, MINOR, "missing_temporal_coverage", 0) ELSE st
  IN  IF Or(_extras_value(meta, "geographical_geonames_url"),
            _extras_value(meta, "spatial")) = ""
      THEN Check5(st1, MINOR, "missing_spatial", 0) ELSE st1

\* Lines 223-236.
Phase5Language(st, meta) ==
  IF _extras_value(meta, "language") = "" THEN Check5(st, MINOR, "missing_language", 0)
  ELSE Check5(st, OK, "language_ok", 0)

Phase5Identifier(st, meta) ==
  IF _extras_value(meta, "identifier") = ""
  THEN Check5(st, MINOR, "missing_identifier", 0)
  ELSE Check5(st, OK, "identifier_ok", 0)

\* A faulty variant of Phase5Profile (every field taken as recommended); C20
\* fails with it.
RECURSIVE Phase5Profile_recommended(_, _, _, _)
Phase5Profile_recommended(st, meta, extra_fields, i) ==
  IF i > Len(extra_fields) THEN st
  ELSE Phase5Profile_recommended(
         IF _extras_value(meta, extra_fields[i][1]) # "" THEN st
         ELSE Check5(st, MINOR, "missing_" \o extra_fields[i][1], 0),
         meta, extra_fields, i + 1)

\* Lines 238-250: the extra fields of the detected profile.
RECURSIVE Phase5Profile(_, _, _, _)
Phase5Profile(st, meta, extra_fields, i) ==
  IF i > Len(extra_fields) THEN st
  ELSE
    LET extras_key == extra_fields[i][1]
        cardinality == extra_fields[i][2]
    IN  Phase5Profile(
          IF _extras_value(meta, extras_key) # "" THEN st
          ELSE IF cardinality = "mandatory"
               THEN Check5(st, MAJOR, "missing_" \o extras_key, 3)
               ELSE Check5(st, MINOR, "missing_" \o extras_key, 0),
          meta, extra_fields, i + 1)

\* res.get('id', 'x')[:8]
IdPrefix(id) ==
  CASE id = "-" -> "x"
    [] id = "0a1b2c3d-e4f5" -> "0a1b2c3d"
    [] OTHER -> id

\* int(size or 0), 0 when the conversion fails.
SizeInt(size) == IF size = "1024" THEN 1024 ELSE 0

\* Lines 254-304, one resource.
Phase5Resource(st, res) ==
  LET prefix == "resource_" \o IdPrefix(res.id)
      st1 == IF Strip(res.format) = ""
             THEN Check5(st, MAJOR, prefix \o "_missing_format", 1) ELSE st
      st2 == IF Strip(res.mimetype) = ""
             THEN Check5(st1, MINOR, prefix \o "_missing_mime", 0) ELSE st1
      st3 == IF Strip(res.license_id) = ""
             THEN Check5(st2, MAJOR, prefix \o "_missing_license", 2) ELSE st2
      st4 == IF SizeInt(res.size) = 0
             THEN Check5(st3, MINOR, prefix \o "_size_zero", 0) ELSE st3
  IN  IF Strip(res.url) = "" THEN Check5(st4, MAJOR, prefix \o "_missing_url", 0)
      ELSE IF Strip(res.url) \in UNSTABLE_URL_RE
      THEN Check5(st4, MAJOR, prefix \o "_unstable_url", 2)
      ELSE st4

RECURSIVE Phase5Resources(_, _, _)
Phase5Resources(st, resources, i) ==
  IF i > Len(resources) THEN st
  ELSE Phase5Resources(Phase5Resource(st, resources[i]), resources, i + 1)

METADATA == "Metadata completeness"
ACCESSIBILITY == "Accessibility"

\* MetadataValidator.__init__ (line 102) and _phase5_metadata up to line 304:
\* the report and the score before the floor at zero.
Phase5Checks(r, meta) ==
  LET profile == detect_profile(meta, meta.portal_url)
      st0 == [report |-> ok([r EXCEPT !.profile = profile], PHASE5, "profile_detected",
                            <<profile>>),
              score |-> 20]
      st1 == Phase5Tags(Phase5License(Phase5Publisher(
               Phase5Description(Phase5Title(st0, meta), meta), meta), meta), meta)
      st2 == Phase5Date(Phase5Date(st1, meta, "issued"), meta, "modified")
      st3 == Phase5Identifier(Phase5Language(Phase5Coverage(
               Phase5Frequency(st2, meta), meta), meta), meta)
      st4 == Phase5Profile(st3, meta, PROFILE_EXTRA_FIELDS(profile), 1)
  IN  Phase5Resources(st4, meta.resources, 1)

\* _phase5_metadata, with the dimension of lines 306-308.
_phase5_metadata(r, meta) ==
  LET st5 == Phase5Checks(r, meta)
  IN  append_dimension(st5.report, ScoreDimension(METADATA, 20, Max0(st5.score), <<>>))

\* -------------------------------- metadata_validator.py: AccessibilityChecker

\* What one request can end in: a status code, a timeout, another exception.
HeadOutcomes == <<"head", "200", "204", "404", "405", "500", "timeout", "error">>
GetOutcomes == <<"get", "200", "404", "500", "timeout", "error">>
status_code(o) ==
  CASE o = "200" -> 200 [] o = "204" -> 204 [] o = "404" -> 404 [] o = "500" -> 500
    [] OTHER -> 405

\* The outcomes of the requests to the resources, with at most k not nominal;
\* resources without a URL are not requested.
RECURSIVE AccessFields(_, _)
AccessFields(resources, i) ==
  IF i > Len(resources) THEN <<>>
  ELSE (IF Strip(resources[i].url) = "" THEN <<<<"head", "200">>, <<"get", "200">>>>
        ELSE <<HeadOutcomes, GetOutcomes>>) \o AccessFields(resources, i + 1)

Responses(resources, k) ==
  {[i \in 1..Len(resources) |-> [head |-> c[1][2 * i - 1], get |-> c[1][2 * i]]] :
     c \in Choices(AccessFields(resources, 1), k)}

\* One deviation per request whose outcome is not 200, if the request is made.
ResponsesCost(resources, responses) ==
  LET cost(i) == IF Strip(resources[i].url) = "" THEN 0
                 ELSE IF responses[i].head = "200" THEN 0
                 ELSE IF responses[i].head \in {"404", "405", "500"} /\ responses[i].get = "200"
                      THEN 1
                 ELSE IF responses[i].head \in {"404", "405", "500"} THEN 2 ELSE 1
      sum[i \in 0..Len(resources)] == IF i = 0 THEN 0 ELSE sum[i - 1] + cost(i)
  IN  sum[Len(resources)]

\* AccessResult with the deduction of a timeout on every transport failure.
AccessResult_error_five(st, prefix, outcome) ==
  IF outcome \in {"timeout", "error"} THEN
    [st EXCEPT !.score = @ - 5,
               !.report = major(@, PHASE5, prefix \o "_" \o outcome, <<>>)]
  ELSE IF status_code(outcome) = 200 THEN
    [st EXCEPT !.accessible = @ + 1,
               !.report = ok(@, PHASE5, prefix \o "_accessible", <<>>)]
  ELSE
    [st EXCEPT !.score = @ - 5,
               !.report = blocker(@, PHASE5, prefix \o "_not_accessible", <<outcome>>)]

\* Lines 347-373, once the response (or the exception) is known.
AccessResult(st, prefix, outcome) ==
  IF outcome = "timeout" THEN
    [st EXCEPT !.score = @ - 5,
               !.report = major(@, PHASE5, prefix \o "_timeout", <<>>)]
  ELSE IF outcome = "error" THEN
    [st EXCEPT !.score = @ - 3,
               !.report = major(@, PHASE5, prefix \o "_error", <<>>)]
  ELSE IF status_code(outcome) = 200 THEN
    [st EXCEPT !.accessible = @ + 1,
               !.report = ok(@, PHASE5, prefix \o "_accessible", <<>>)]
  ELSE
    [st EXCEPT !.score = @ - 5,
               !.report = blocker(@, PHASE5, prefix \o "_not_accessible", <<outcome>>)]

\* Lines 335-373: the loop over the resources; each request is recorded as
\* <<method, url, answer>>.
RECURSIVE AccessLoop(_, _, _, _)
AccessLoop(st, resources, responses, i) ==
  IF i > Len(resources) THEN st
  ELSE
    LET res == resources[i]
        url == Strip(res.url)
        prefix == "access_" \o IdPrefix(res.id)
        head == responses[i].head
        retry == head \notin {"timeout", "error"} /\ status_code(head) >= 400
        sent == [st EXCEPT !.requests =
                   @ \o <<<<"HEAD", url, head>>>>
                     \o (IF retry THEN <<<<"GET", url, responses[i].get>>>> ELSE <<>>)]
    IN  AccessLoop(
          IF url = "" THEN st
          ELSE AccessResult(sent, prefix, IF retry THEN responses[i].get ELSE head),
          resources, responses, i + 1)

\* AccessibilityChecker.run
AccessibilityChecker(r, meta, responses) ==
  LET resources == meta.resources IN
  IF Len(resources) = 0 THEN
    [report |-> append_dimension(major(r, PHASE5, "no_resources", <<>>),
                                 ScoreDimension(ACCESSIBILITY, 20, 0, <<>>)),
     requests |-> <<>>]
  ELSE
    LET st == AccessLoop([report |-> r, score |-> 20, accessible |-> 0,
                          requests |-> <<>>], resources, responses, 1)
        total == Cardinality({i \in 1..Len(resources) : resources[i].url # ""})
        summary == ok(st.report, PHASE5, "accessibility_summary",
                      <<ToString(st.accessible), ToString(total)>>)
        score == IF st.accessible = 0 /\ total > 0 THEN 0 ELSE st.score
    IN  [report |-> append_dimension(summary,
                      ScoreDimension(ACCESSIBILITY, 20, Max0(score), <<>>)),
         requests |-> st.requests]

\* --------------------------------- metadata_validator.py: ConsistencyChecker

\* .lower().replace("-", "") on the encodings of the vocabulary.
EncodingKey(enc) ==
  CASE enc = "utf-8" -> "utf8" [] enc = "iso-8859-1" -> "iso88591" [] OTHER -> enc

\* `a in b` on the encoding keys: none is a proper part of another.
Contains(a, b) == a = b

\* freq_thresholds.get(freq.upper()); 0 stands for None.
Threshold(freq) ==
  CASE freq \in {"DAILY", "daily"} -> 7
    [] freq = "WEEKLY" -> 30
    [] freq = "MONTHLY" -> 90
    [] freq = "QUARTERLY" -> 180
    [] freq = "ANNUAL" -> 730
    [] freq = "BIENNIAL" -> 1460
    [] OTHER -> 0

\* What the checker meets: the encoding detected in the file ("" when the
\* detector has no answer) and the age of `modified` in days.
ConsistencyInputs == [actual : {"utf_8", "cp1252", ""}, delta_days : {10, 1000}]
ConsistencyCost(in) ==
  (IF in.actual # "utf_8" THEN 1 ELSE 0) + (IF in.delta_days # 10 THEN 1 ELSE 0)

\* ConsistencyChecker.run with stale data reported as a major finding.
ConsistencyChecker_stale_major(r, meta, in) ==
  LET declared_enc == EncodingKey(_extras_value(meta, "encoding"))
      actual == EncodingKey(in.actual)
      r1 == IF declared_enc = "" THEN r
            ELSE IF actual # "" /\ ~Contains(declared_enc, actual)
                    /\ ~Contains(actual, declared_enc)
                 THEN major(r, PHASE6, "encoding_mismatch", <<declared_enc, actual>>)
                 ELSE ok(r, PHASE6, "encoding_consistent", <<actual>>)
      freq == _extras_value(meta, "frequency")
      modified == _extras_value(meta, "modified")
  IN  IF freq # "" /\ modified \in ISO_DATE_RE /\ modified \in ValidDate
      THEN IF Threshold(freq) # 0 /\ in.delta_days > Threshold(freq)
           THEN major(r1, PHASE6, "stale_data", <<freq>>)
           ELSE ok(r1, PHASE6, "freshness_ok", <<freq>>)
      ELSE r1

\* ConsistencyChecker.run
ConsistencyChecker(r, meta, in) ==
  LET declared_enc == EncodingKey(_extras_value(meta, "encoding"))
      actual == EncodingKey(in.actual)
      r1 == IF declared_enc = "" THEN r
            ELSE IF actual # "" /\ ~Contains(declared_enc, actual)
                    /\ ~Contains(actual, declared_enc)
                 THEN major(r, PHASE6, "encoding_mismatch", <<declared_enc, actual>>)
                 ELSE ok(r, PHASE6, "encoding_consistent", <<actual>>)
      freq == _extras_value(meta, "frequency")
      modified == _extras_value(meta, "modified")
  IN  IF freq # "" /\ modified \in ISO_DATE_RE /\ modified \in ValidDate
      THEN IF Threshold(freq) # 0 /\ in.delta_days > Threshold(freq)
           THEN minor(r1, PHASE6, "stale_data", <<freq>>)
           ELSE ok(r1, PHASE6, "freshness_ok", <<freq>>)
      ELSE r1

\* ------------------------------------------------------------ cli_ckan.py

\* _pick_csv_resource: the index of the first CSV resource, 0 when there is none.
IsCsv(res) ==
  \/ res.format \in {"CSV", "csv"}
  \/ res.mimetype = "text/csv"
  \/ res.url = "https://example.org/data.csv"

_pick_csv_resource(meta) ==
  IF \E i \in 1..Len(meta.resources) : IsCsv(meta.resources[i])
  THEN CHOOSE i \in 1..Len(meta.resources) :
         /\ IsCsv(meta.resources[i])
         /\ \A j \in 1..(i - 1) : ~IsCsv(meta.resources[j])
  ELSE 0

\* main, lines 157-158: the file dimensions of a run without --download.
NotChecked(r) ==
  append_dimension(
    append_dimension(
      append_dimension(r, ScoreDimension(FORMAT, 15, 15, <<"Not checked">>)),
      ScoreDimension(STRUCTURE, 20, 20, <<"Not checked">>)),
    ScoreDimension(CONTENT, 25, 25, <<"Not checked">>))

\* main, lines 143-144.
Merge(r, csv) ==
  [r EXCEPT !.findings = @ \o csv.findings, !.dimensions = @ \o csv.dimensions]

\* ------------------------------------------ phase inputs within the budget

Phase1Fields ==
  << <<"detect", "ok", "fail">>, <<"enc", "utf_8", "ascii", "cp1252", "unknown">>,
     <<"bom", "no", "yes", "fail">>, <<"crlf", "no", "yes", "fail">>,
     <<"sniff", "header", "fail", "norow", "noheader">>,
     <<"describe", "ok", "fail">>, <<"rawread", "ok", "fail">> >>

\* The outcomes of the reads and engine calls of phase 1 with at most k anomalies.
Phase1Within(k) ==
  {[detect |-> c[1][1], enc |-> c[1][2], bom |-> c[1][3], crlf |-> c[1][4],
    sniff |-> c[1][5], describe |-> c[1][6], rawread |-> c[1][7]] :
     c \in Choices(Phase1Fields, k)}

\* The sequences of m detector outcomes of which at most k are not "none".
RECURSIVE OutcomesWithin(_, _)
OutcomesWithin(m, k) ==
  IF m = 0 THEN {<<>>}
  ELSE UNION {{<<o>> \o rest : rest \in OutcomesWithin(m - 1, IF o = "none" THEN k ELSE k - 1)} :
              o \in IF k > 0 THEN Outcomes ELSE {"none"}}

Phase3Record(sm, vl, d, n) ==
  [summarize |-> sm, varchar_load |-> vl,
   comma |-> d[1], dates |-> d[2], units |-> d[3], placeholders |-> d[4],
   numeric |-> d[5],
   whitespace |-> [i \in 1..n |-> d[5 + i]], fuzzy |-> [i \in 1..n |-> d[5 + n + i]]]

\* The outcomes of the engine calls of phase 3, n text columns scanned, with at
\* most k anomalies.
Phase3Within(n, k) ==
  UNION {LET c == (IF sm # "clean" THEN 1 ELSE 0) + (IF vl = "fail" THEN 1 ELSE 0)
         IN  IF c > k THEN {}
             ELSE {Phase3Record(sm, vl, d, n) :
                     d \in OutcomesWithin(5 + 2 * n, IF vl = "fail" THEN 0 ELSE k - c)} :
         sm \in {"fail", "clean", "high"}, vl \in {"ok", "fail"}}

\* ------------------------------------------------------------ CsvValidator

ValidatorState ==
  [separator |-> separator, raw_headers |-> raw_headers,
   duckdb_columns |-> duckdb_columns, executed |-> executed, failed |-> failed]

\* What a phase method leaves behind, and where run() goes next.
Commit(s, next) ==
  /\ anomalies + s.cost <= MaxAnomalies
  /\ anomalies' = anomalies + s.cost
  /\ csv_report' = s.report
  /\ emitted' = emitted \cup Codes(s.report.findings)
  /\ separator' = s.separator
  /\ raw_headers' = s.raw_headers
  /\ duckdb_columns' = s.duckdb_columns
  /\ executed' = s.executed
  /\ failed' = s.failed
  /\ pc' = IF s.raised THEN "crashed" ELSE next

\* run(), line 156.
Phase0 ==
  /\ pc = "phase0"
  /\ \E in \in Phase0Cases :
       LET o == _phase0_blockers(csv_report, in) IN
       /\ anomalies + o.cost <= MaxAnomalies
       /\ anomalies' = anomalies + o.cost
       /\ csv_report' = o.report
       /\ lenient' = o.lenient
       /\ table' = IF o.loaded THEN in.table ELSE NoTable
       /\ tmp_state' = IF o.tmp_written THEN "exists" ELSE tmp_state
       /\ path' = IF o.swapped THEN "tmp" ELSE path
       /\ orig_path' = IF o.swapped THEN path ELSE orig_path
       /\ row_count' = o.row_count
       /\ attempts' = o.attempts
       /\ file' = FileKind(in)
       /\ emitted' = emitted \cup Codes(o.report.findings)
  /\ trace' = Append(trace, P0)
  /\ pc' = "phase0_done"
  /\ UNCHANGED <<entry, unlinks, separator, raw_headers, duckdb_columns, executed,
                 failed, report, exit_code, exported, ckanvars, has_bom, scorevars>>

\* run(), lines 157-161: a blocker of phase 0 ends the run.
HaltOnBlocker ==
  /\ pc = "phase0_done"
  /\ has_blockers(csv_report)
  /\ csv_report' = BlockedDimensions(csv_report)
  /\ pc' = "returned"
  /\ UNCHANGED <<entry, anomalies, table, path, orig_path, tmp_state, unlinks, lenient,
                 row_count, separator, raw_headers, duckdb_columns, attempts, trace,
                 executed, failed, report, exit_code, exported, ckanvars, file, emitted,
                 has_bom, scorevars>>

\* run(), lines 162-164.
Phase1 ==
  /\ pc = "phase0_done"
  /\ ~has_blockers(csv_report)
  /\ \E in \in Phase1Within(MaxAnomalies - anomalies) :
       /\ Commit(_phase1_structure(PhaseState(csv_report, ValidatorState), in, table,
                                   row_count, orig_path # "none"),
                 "phase2")
       /\ has_bom' = in.bom
  /\ trace' = Append(trace, P1)
  /\ UNCHANGED <<entry, table, path, orig_path, tmp_state, unlinks, lenient, row_count,
                 attempts, report, exit_code, exported, ckanvars, file, scorevars>>

\* run(), line 165.
Phase2 ==
  /\ pc = "phase2"
  /\ \E in \in Phase2Inputs :
       Commit(_phase2_columns(PhaseState(csv_report, ValidatorState), in), "phase3")
  /\ trace' = Append(trace, P2)
  /\ UNCHANGED <<entry, table, path, orig_path, tmp_state, unlinks, lenient, row_count,
                 attempts, report, exit_code, exported, ckanvars, file, has_bom,
                 scorevars>>

\* run(), line 166.
Phase3 ==
  /\ pc = "phase3"
  /\ \E in \in Phase3Within(Len(Scanned(VarcharColumns(duckdb_columns))),
                            MaxAnomalies - anomalies) :
       Commit(_phase3_content(PhaseState(csv_report, ValidatorState), in), "phase4")
  /\ trace' = Append(trace, P3)
  /\ UNCHANGED <<entry, table, path, orig_path, tmp_state, unlinks, lenient, row_count,
                 attempts, report, exit_code, exported, ckanvars, file, has_bom,
                 scorevars>>

\* run(), line 167.
Phase4 ==
  /\ pc = "phase4"
  /\ \E in \in Phase4Inputs(Len(CodeColumns(ValidatorState))) :
       Commit(_phase4_codes(PhaseState(csv_report, ValidatorState), in), "scores")
  /\ trace' = Append(trace, P4)
  /\ UNCHANGED <<entry, table, path, orig_path, tmp_state, unlinks, lenient, row_count,
                 attempts, report, exit_code, exported, ckanvars, file, has_bom,
                 scorevars>>

\* run(), lines 168-175: scores, then the cleanup of the temporary copy.
Finish ==
  /\ pc = "scores"
  /\ csv_report' = _compute_scores(csv_report)
  /\ IF orig_path # "none"
     THEN /\ tmp_state' = IF path = "tmp" THEN "deleted" ELSE tmp_state
          /\ unlinks' = IF path = "tmp" /\ tmp_state = "exists" THEN unlinks + 1 ELSE unlinks
          /\ path' = orig_path
     ELSE UNCHANGED <<tmp_state, unlinks, path>>
  /\ pc' = "returned"
  /\ UNCHANGED <<entry, anomalies, table, orig_path, lenient, row_count, separator,
                 raw_headers, duckdb_columns, attempts, trace, executed, failed, report,
                 exit_code, exported, ckanvars, file, emitted, has_bom, scorevars>>

\* cli_csv.main, lines 52-85: the report of the run and the exit code.
CsvExit ==
  /\ entry = "csv"
  /\ pc = "returned"
  /\ report' = csv_report
  /\ exported' = to_dict(csv_report)
  /\ exit_code' = ExitCode(csv_report)
  /\ pc' = "exited"
  /\ UNCHANGED <<entry, anomalies, csvvars, ckanvars, scorevars>>

\* ---------------------------------------------------- MetadataValidator.run

\* MetadataValidator(metadata, portal_url).run() on a report of its own.
MetadataRun ==
  /\ entry = "meta"
  /\ pc = "validate"
  /\ report' = _phase5_metadata(QualityReport, metadata)
  /\ pc' = "done"
  /\ UNCHANGED <<entry, anomalies, csvvars, ckanvars, exit_code, exported, scorevars>>

\* ---------------------------------------------------------- cli_ckan.main

\* main, lines 100-101: the options; the defaults are no --download and
\* --check-urls, and an option off its default counts as one deviation.
OptionSets == [check_urls : BOOLEAN, download : BOOLEAN]
OptionsCost(options) ==
  (IF options.check_urls THEN 0 ELSE 1) + (IF options.download THEN 1 ELSE 0)

\* main, line 111: _fetch_ckan_metadata ends the program with code 3 when the
\* portal does not answer with the record.
Fetch ==
  /\ entry = "ckan"
  /\ pc = "fetch"
  /\ \/ /\ pc' = "access"
        /\ UNCHANGED <<anomalies, exit_code>>
     \/ /\ anomalies < MaxAnomalies
        /\ anomalies' = anomalies + 1
        /\ exit_code' = 3
        /\ pc' = "aborted"
  /\ UNCHANGED <<entry, csvvars, ckanvars, report, exported, scorevars>>

\* main, lines 118-124.
Accessibility ==
  /\ pc = "access"
  /\ IF check_urls
     THEN \E responses \in Responses(metadata.resources, MaxAnomalies - anomalies) :
            LET a == AccessibilityChecker(report, metadata, responses) IN
            /\ anomalies + ResponsesCost(metadata.resources, responses) <= MaxAnomalies
            /\ anomalies' = anomalies + ResponsesCost(metadata.resources, responses)
            /\ report' = a.report
            /\ requests' = a.requests
     ELSE UNCHANGED <<anomalies, report, requests>>
  /\ pc' = "metadata"
  /\ UNCHANGED <<entry, csvvars, metadata, check_urls, download, download_state,
                 exit_code, exported, scorevars>>

\* main, line 129.
Validate ==
  /\ pc = "metadata"
  /\ report' = _phase5_metadata(report, metadata)
  /\ pc' = "download"
  /\ UNCHANGED <<entry, anomalies, csvvars, ckanvars, exit_code, exported, scorevars>>

\* main, lines 132-158: the download of the first CSV resource, or the file
\* dimensions of a run without --download.
Download ==
  /\ pc = "download"
  /\ IF download
     THEN LET i == _pick_csv_resource(metadata) IN
          IF i = 0 THEN
            /\ pc' = "render"
            /\ UNCHANGED <<anomalies, download_state, report>>
          ELSE
            \/ /\ metadata.resources[i].url # ""
               /\ download_state' = "written"
               /\ pc' = "phase0"
               /\ UNCHANGED <<anomalies, report>>
            \/ /\ metadata.resources[i].url # "" => anomalies < MaxAnomalies
               /\ anomalies' = IF metadata.resources[i].url # "" THEN anomalies + 1
                               ELSE anomalies
               /\ pc' = "render"
               /\ UNCHANGED <<download_state, report>>
     ELSE /\ report' = NotChecked(report)
          /\ pc' = "render"
          /\ UNCHANGED <<anomalies, download_state>>
  /\ UNCHANGED <<entry, csvvars, metadata, check_urls, download, requests, exit_code,
                 exported, scorevars>>

\* main, lines 141-151: the findings and dimensions of the file join the report,
\* the consistency check runs, the download is deleted.
Consistency ==
  /\ entry = "ckan"
  /\ pc = "returned"
  /\ \E in \in ConsistencyInputs :
       /\ anomalies + ConsistencyCost(in) <= MaxAnomalies
       /\ anomalies' = anomalies + ConsistencyCost(in)
       /\ report' = ConsistencyChecker(Merge(report, csv_report), metadata, in)
  /\ download_state' = "deleted"
  /\ pc' = "render"
  /\ UNCHANGED <<entry, csvvars, metadata, check_urls, download, requests, exit_code,
                 exported, scorevars>>

\* main, lines 160-180.
CkanExit ==
  /\ pc = "render"
  /\ exported' = to_dict(report)
  /\ exit_code' = ExitCode(report)
  /\ pc' = "exited"
  /\ UNCHANGED <<entry, anomalies, csvvars, ckanvars, report, scorevars>>

\* ---------------------------------------------------------- specification

\* A validator and a report as their constructors leave them.
Fresh ==
  /\ requests = <<>>
  /\ download_state = "none"
  /\ file = "unread"
  /\ exported = to_dict(QualityReport)
  /\ table = NoTable
  /\ path = "orig"
  /\ orig_path = "none"
  /\ tmp_state = "none"
  /\ unlinks = 0
  /\ lenient = FALSE
  /\ row_count = 0
  /\ separator = ","
  /\ raw_headers = <<>>
  /\ duckdb_columns = <<>>
  /\ attempts = <<>>
  /\ trace = <<>>
  /\ executed = {}
  /\ failed = {}
  /\ csv_report = QualityReport
  /\ report = QualityReport
  /\ exit_code = -1
  /\ emitted = {}
  /\ has_bom = "unread"

\* FormatScore, StructureScore and ContentScore of a set of codes.
Scores(cs) ==
  [format |-> FormatScore(cs), structure |-> StructureScore(cs),
   content |-> ContentScore(cs)]

Init ==
  /\ \/ /\ entry = "csv"
        /\ pc = "phase0"
        /\ anomalies = 0
        /\ metadata = NoMeta
        /\ check_urls = TRUE
        /\ download = FALSE
     \/ /\ entry = "meta"
        /\ pc = "validate"
        /\ check_urls = TRUE
        /\ download = FALSE
        /\ \E m \in Metas(MaxAnomalies) :
             /\ metadata = m[1]
             /\ anomalies = m[2]
     \/ /\ entry = "ckan"
        /\ pc = "fetch"
        /\ \E options \in OptionSets :
             /\ check_urls = options.check_urls
             /\ download = options.download
             /\ \E m \in Metas(MaxAnomalies - OptionsCost(options)) :
                  /\ metadata = m[1]
                  /\ anomalies = m[2] + OptionsCost(options)
  /\ Fresh
  /\ defects = {}
  /\ earned = Scores({})

Next ==
  \/ Phase0
  \/ HaltOnBlocker
  \/ Phase1
  \/ Phase2
  \/ Phase3
  \/ Phase4
  \/ Finish
  \/ CsvExit
  \/ MetadataRun
  \/ Fetch
  \/ Accessibility
  \/ Validate
  \/ Download
  \/ Consistency
  \/ CkanExit

Spec == Init /\ [][Next]_vars

\* ------------------------------------------------- scoring on its own

\* The codes _compute_scores deducts for, and one it does not.
ScoredCodes ==
  {"encoding_not_utf8", "bom_present", "no_header",
   "wide_format_years", "wide_format_months", "duplicate_columns", "aggregate_rows",
   "bad_column_names", "footnote_markers",
   "comma_decimal", "non_iso_date", "high_null_rate", "units_in_cells",
   "placeholder_values", "invalid_reference_codes", "numeric_as_varchar",
   "fuzzy_category_values", "trailing_whitespace_values"}

MaxDefects == 5

ScoreInit ==
  /\ entry = "scores"
  /\ pc = "scoring"
  /\ anomalies = 0
  /\ metadata = NoMeta
  /\ check_urls = TRUE
  /\ download = FALSE
  /\ Fresh
  /\ defects = {}
  /\ earned = Scores({})

\* One more code among the non-ok findings, and the dimensions computed anew.
AddDefect ==
  /\ pc = "scoring"
  /\ Cardinality(defects) < MaxDefects
  /\ \E c \in ScoredCodes \ defects :
       /\ defects' = defects \cup {c}
       /\ earned' = Scores(defects \cup {c})
  /\ UNCHANGED <<entry, pc, anomalies, csvvars, ckanvars, report, exit_code, exported>>

ScoreNext == AddDefect

ScoreSpec == ScoreInit /\ [][ScoreNext]_vars

\* ------------------------------------------------------------ properties

HasCode(r, code) == \E i \in 1..Len(r.findings) : r.findings[i].code = code
HasSeverity(r, severity) ==
  \E i \in 1..Len(r.findings) : r.findings[i].severity = severity

\* The checks of phases 1-4 a run makes when no call fails: the encoding check
\* unless phase 0 re-encoded, the numeric-text check only with text columns.
ExpectedChecks ==
  {"bom", "line_endings", "sniff", "schema", "raw_headers",
   "duplicates", "names", "wide", "aggregate", "footnotes",
   "summarize", "varchar_load", "comma_decimal", "non_iso_date", "units_in_cells",
   "placeholder_values", "whitespace", "fuzzy", "codes"}
  \cup (IF orig_path = "none" THEN {"encoding"} ELSE {})
  \cup (IF Len(VarcharColumns(DuckColumns(table))) > 0 THEN {"numeric_as_varchar"}
        ELSE {})

\* C1: whenever phase 0 wrote a UTF-8 temporary copy, by the time run() has
\* returned or failed the copy was deleted exactly once and the validator's
\* path is the original path again.
C1_TempCopyCleaned ==
  (pc \in {"returned", "crashed"} /\ tmp_state # "none")
    => (tmp_state = "deleted" /\ unlinks = 1 /\ path = "orig")

\* C2: once the file has passed phase 0, run() never ends in an uncaught
\* failure, whatever the engine calls and file reads of phases 1-4 do.
C2_NoUncaughtFailure == pc # "crashed"

\* C3: only phase 0 halts the pipeline: with a blocker of phase 0 the report
\* has no finding of phases 1-4; without one, phases 1, 2, 3, 4 each run, in
\* that order.
C3_OnlyPhase0Halts ==
  pc \in {"returned", "crashed"} =>
    IF \E i \in 1..Len(csv_report.findings) :
         /\ csv_report.findings[i].phase = P0
         /\ csv_report.findings[i].severity = BLOCKER
    THEN \A i \in 1..Len(csv_report.findings) :
           csv_report.findings[i].phase \notin {P1, P2, P3, P4}
    ELSE trace = <<P0, P1, P2, P3, P4>>

\* C4: from phase 1 onward a failing check never keeps a sibling check from
\* running: a run that returns without a blocker has executed every check.
C4_SiblingChecksRun ==
  (pc = "returned" /\ ~has_blockers(csv_report)) => ExpectedChecks \subseteq executed

\* C5: validating a path that does not exist gives a report with exactly one
\* finding, the blocker file_not_found of phase 0, and has_blockers is true.
C5_FileNotFound ==
  file = "missing" =>
    /\ csv_report.findings = <<Finding(BLOCKER, P0, "file_not_found", <<>>)>>
    /\ has_blockers(csv_report)
    /\ (entry = "csv" /\ pc = "exited") => report.findings = csv_report.findings

C5_Witness == file = "missing" /\ entry = "csv" /\ pc = "exited" /\ exit_code = 2

\* C6: in the final report of a file validation, a finding wide_format_years
\* or wide_format_months excludes a finding no_header.
C6_SuppressionLaw ==
  pc \in {"returned", "render", "exited"} =>
    \A r \in {csv_report, report} :
      (HasCode(r, "wide_format_years") \/ HasCode(r, "wide_format_months"))
        => ~HasCode(r, "no_header")

C6_Witness ==
  /\ entry = "csv"
  /\ pc = "exited"
  /\ HasCode(report, "wide_format_years")
  /\ "no_header" \in emitted

\* C7: every dimension of every report has 0 <= earned <= max.
C7_DimensionsInRange ==
  \A r \in {csv_report, report} :
    \A i \in 1..Len(r.dimensions) :
      0 <= r.dimensions[i].score /\ r.dimensions[i].score <= r.dimensions[i].max_score

C7_Witness ==
  /\ entry = "ckan"
  /\ pc = "exited"
  /\ metadata = BareMeta
  /\ \E i \in 1..Len(report.dimensions) :
       report.dimensions[i].name = METADATA /\ report.dimensions[i].score = 0

\* C8: for sets of non-ok codes A and B with A a subset of B, each of the
\* three file dimensions computed from B is at most the one computed from A.
C8_ScoreMonotone ==
  \A A \in SUBSET defects :
    /\ earned.format <= FormatScore(A)
    /\ earned.structure <= StructureScore(A)
    /\ earned.content <= ContentScore(A)

C8_Witness ==
  /\ defects = {"encoding_not_utf8", "bom_present", "no_header", "comma_decimal"}
  /\ earned.format = 0
  /\ earned.content = 20

\* C9: the exit code is 2 with a blocker, else 1 with a major, else 0;
\* has_blockers holds exactly with a blocker finding; the verdict recomputed
\* from the findings of the export equals the exit code.
C9_Verdict ==
  /\ \A r \in {csv_report, report} : has_blockers(r) <=> HasSeverity(r, BLOCKER)
  /\ pc = "exited" =>
       /\ exit_code = (IF HasSeverity(report, BLOCKER) THEN 2
                       ELSE IF HasSeverity(report, MAJOR) THEN 1 ELSE 0)
       /\ exit_code = VerdictOfExport(exported)

C9_Witness ==
  /\ pc = "exited"
  /\ exit_code = 2
  /\ HasSeverity(report, MAJOR)
  /\ HasSeverity(report, OK)

\* C10: a file-only run has exactly the dimensions File format (15), Data
\* structure (20), Data content (25), in this order, halted or completed; a
\* run with accessibility check, metadata validation and file validation all
\* requested has exactly five dimensions, no name twice.
C10_Dimensions ==
  /\ (entry = "csv" /\ pc \in {"returned", "exited"}) =>
       /\ Len(csv_report.dimensions) = 3
       /\ [i \in 1..3 |-> <<csv_report.dimensions[i].name,
                             csv_report.dimensions[i].max_score>>]
            = <<<<FORMAT, 15>>, <<STRUCTURE, 20>>, <<CONTENT, 25>>>>
  /\ (entry = "ckan" /\ pc = "exited" /\ check_urls /\ download) =>
       /\ Len(report.dimensions) = 5
       /\ \A i, j \in 1..Len(report.dimensions) :
            report.dimensions[i].name = report.dimensions[j].name => i = j

\* ------------------------------------------------- properties: C11 - C20

\* The export of a second run on the same file with the same outcomes of every
\* read and engine call, in which mktemp returned the name n: the name enters
\* a run only as the path handed to the engine, so the two exports differ at
\* most where a message carries it.
SecondRun(export, n) ==
  [export EXCEPT !.findings =
     [i \in 1..Len(export.findings) |->
        [export.findings[i] EXCEPT !.message =
           [j \in 1..Len(export.findings[i].message) |->
              IF export.findings[i].message[j] \in TmpNames THEN n
              ELSE export.findings[i].message[j]]]]]

\* C11: idempotence: two runs of fresh validators on the same unmodified file
\* with the same engine outcomes give identical exports, messages included.
C11_Idempotent ==
  pc = "returned" =>
    \A n \in TmpNames : SecondRun(to_dict(csv_report), n) = to_dict(csv_report)

\* C12: a file that parses strictly, with at least 2 columns and 1 data row, no
\* BOM and fewer than 3 year-pattern and 3 month-pattern raw headers, gets a
\* final report without blocker, with parseable, no_bom, separator and
\* no_wide_format, and without bom_present and the wide-format findings.
C12_CleanFile ==
  (/\ pc = "returned"
   /\ attempts = <<<<"strict", "ok">>>>
   /\ Len(table.raw) >= 2
   /\ row_count >= 1
   /\ has_bom = "no"
   /\ Len(SelectNames(table.raw, YEAR_COLUMN)) < 3
   /\ Len(SelectNames(table.raw, MONTH_NAMES)) < 3)
  => /\ ~has_blockers(csv_report)
     /\ \A c \in {"parseable", "no_bom", "separator", "no_wide_format"} :
          HasCode(csv_report, c)
     /\ \A c \in {"bom_present", "wide_format_years", "wide_format_months"} :
          ~HasCode(csv_report, c)

\* A file with two year-pattern headers went through the whole run.
C12_Witness ==
  /\ entry = "csv"
  /\ pc = "exited"
  /\ attempts = <<<<"strict", "ok">>>>
  /\ has_bom = "no"
  /\ table.raw = <<"id", "2019", "2020">>
  /\ trace = <<P0, P1, P2, P3, P4>>
  /\ HasCode(report, "no_wide_format")

\* C13: file validation of a file whose content is a JSON document gives a
\* blocker finding with code file_wrong_type, and has_blockers is true.
C13_JsonWrongType ==
  file = "json" =>
    /\ \E i \in 1..Len(csv_report.findings) :
         /\ csv_report.findings[i].code = "file_wrong_type"
         /\ csv_report.findings[i].severity = BLOCKER
    /\ has_blockers(csv_report)

\* C14: within the report of one run no two findings share a code.
C14_UniqueCodes ==
  \A r \in {csv_report, report} :
    \A i, j \in 1..Len(r.findings) :
      r.findings[i].code = r.findings[j].code => i = j

\* The metadata validation has run on `metadata` and its findings are in `report`.
Validated == HasCode(report, "profile_detected")

HasMajor(r, code) ==
  \E i \in 1..Len(r.findings) :
    r.findings[i].code = code /\ r.findings[i].severity = MAJOR

\* The value of a date key as line 181 reads it.
DateValue(meta, date_key) == Strip(Or(meta[date_key], _extras_value(meta, date_key)))

\* C15 (scenario C): a record with no license and no description gets
\* missing_license and missing_description, both major, and at most 12 points
\* of Metadata completeness, whatever its other fields are.
C15_ScenarioC ==
  (/\ Validated
   /\ Strip(metadata.license_id) = ""
   /\ Strip(metadata.license_title) = ""
   /\ Strip(metadata.notes) = "")
  => /\ HasMajor(report, "missing_license")
     /\ HasMajor(report, "missing_description")
     /\ \A i \in 1..Len(report.dimensions) :
          report.dimensions[i].name = METADATA => report.dimensions[i].score <= 12

\* A record with everything but license and description in order: exactly 12.
C15_Witness ==
  /\ entry = "meta"
  /\ pc = "done"
  /\ metadata.license_id = ""
  /\ metadata.license_title = ""
  /\ metadata.notes = ""
  /\ metadata.title = "Dataset di test"
  /\ HasMajor(report, "missing_license")
  /\ \E i \in 1..Len(report.dimensions) :
       report.dimensions[i].name = METADATA /\ report.dimensions[i].score = 12

\* C16: a description that is present but short (fewer than 80 characters,
\* not the title) gets neither short_description nor missing_description.
C16_ShortDescription ==
  (/\ Validated
   /\ Strip(metadata.notes) # ""
   /\ Len(Strip(metadata.notes)) < 80
   /\ Strip(metadata.notes) # Strip(metadata.title))
  => /\ ~HasCode(report, "short_description")
     /\ ~HasCode(report, "missing_description")

\* C17: a non-empty description identical to the title is reported as
\* description_equals_title, whatever its length.
C17_DescriptionEqualsTitle ==
  (/\ Validated
   /\ Strip(metadata.notes) # ""
   /\ Strip(metadata.notes) = Strip(metadata.title))
  => HasCode(report, "description_equals_title")

\* Full ISO 8601 date-times: YYYY-MM-DDThh:mm:ss with an optional fraction.
IsoDateTime == {"2021-12-07T15:20:47.883135", "2022-03-10T09:27:04.895252"}

\* C18: an issued / modified value that is a full ISO 8601 date-time is not
\* reported as invalid; a plain YYYY-MM-DD value gives <key>_ok; a
\* day/month/year value gives non_iso_<key>.
C18_IsoDateTimeAccepted ==
  Validated =>
    \A date_key \in {"issued", "modified"} :
      LET val == DateValue(metadata, date_key) IN
      /\ val \in IsoDateTime => ~HasCode(report, "invalid_" \o date_key)
      /\ val \in ISO_DATE_RE => HasCode(report, date_key \o "_ok")
      /\ val \in NON_ISO_DATE_RE => HasCode(report, "non_iso_" \o date_key)

\* C19: dates given only under the extras keys dcat_issued and dcat_modified
\* count as present: neither missing_issued nor missing_modified is reported.
C19_DcatPrefixedDates ==
  (/\ Validated
   /\ DateValue(metadata, "issued") = ""
   /\ DateValue(metadata, "modified") = ""
   /\ _extras_value(metadata, "dcat_issued") # ""
   /\ _extras_value(metadata, "dcat_modified") # "")
  => /\ ~HasCode(report, "missing_issued")
     /\ ~HasCode(report, "missing_modified")

\* The mandatory extra fields of a profile, and those a record leaves empty.
Mandatory(profile) ==
  {PROFILE_EXTRA_FIELDS(profile)[i][1] :
     i \in {j \in 1..Len(PROFILE_EXTRA_FIELDS(profile)) :
              PROFILE_EXTRA_FIELDS(profile)[j][2] = "mandatory"}}
MissingMandatory(meta, profile) ==
  {k \in Mandatory(profile) : _extras_value(meta, k) = ""}

\* The record with its missing mandatory fields filled in.
Filled(meta, profile) ==
  [meta EXCEPT !.extras =
     [k \in DOMAIN meta.extras |->
        IF k \in MissingMandatory(meta, profile) THEN "x" ELSE meta.extras[k]]]

\* C20: under a profile with mandatory extra fields, each such field that is
\* missing or empty gives a major finding missing_<key> and costs exactly 3
\* points of Metadata completeness (before the floor at zero); a field that is
\* present gives no missing_<key> finding.
C20_ProfileMandatoryFields ==
  Validated =>
    LET profile == report.profile
        missing == MissingMandatory(metadata, profile)
        full == Phase5Checks(QualityReport, Filled(metadata, profile)).score
    IN  /\ \A k \in Mandatory(profile) :
             IF k \in missing THEN HasMajor(report, "missing_" \o k)
             ELSE ~HasCode(report, "missing_" \o k)
        /\ \A i \in 1..Len(report.dimensions) :
             report.dimensions[i].name = METADATA =>
               report.dimensions[i].score = Max0(full - 3 * Cardinality(missing))

\* An Italian record with a holder and without a theme.
C20_Witness ==
  /\ entry = "meta"
  /\ pc = "done"
  /\ report.profile = "DCAT-AP_IT"
  /\ _extras_value(metadata, "holder_name") # ""
  /\ ~HasCode(report, "missing_holder_name")
  /\ HasMajor(report, "missing_theme")
  /\ \E i \in 1..Len(report.dimensions) :
       report.dimensions[i].name = METADATA /\ report.dimensions[i].score = 17

\* ------------------------------------------------------ properties: C21 - C30

\* The accessibility check has run on the record.
Probed == \E i \in 1..Len(report.dimensions) : report.dimensions[i].name = ACCESSIBILITY

\* The points of the Accessibility dimension (-1 when it is absent).
AccessibilityScore ==
  IF Probed
  THEN (CHOOSE d \in {report.dimensions[i] : i \in 1..Len(report.dimensions)} :
          d.name = ACCESSIBILITY).score
  ELSE -1

\* A resource of the record was found reachable.
Reachable ==
  \E i \in 1..Len(metadata.resources) :
    HasCode(report, "access_" \o IdPrefix(metadata.resources[i].id) \o "_accessible")

\* C21: when the record declares at least one resource and the accessibility
\* check finds none of them reachable (HTTP 200), the Accessibility dimension
\* is 0, whatever the number of resources and the deductions.
C21_NothingReachable ==
  (Probed /\ Len(metadata.resources) >= 1 /\ ~Reachable) => AccessibilityScore = 0

\* Scenario D: every resource URL answers HTTP 500 and the dimension is 0.
C21_ScenarioD ==
  /\ Probed
  /\ Len(metadata.resources) >= 1
  /\ \A i \in 1..Len(requests) : requests[i][3] = "500"
  /\ Len(requests) = 2 * Len(metadata.resources)
  /\ AccessibilityScore = 0

\* The answers a request can get.
Answers == {"200", "204", "404", "405", "500", "timeout", "error"}
Refused(answer) == answer \notin {"timeout", "error"} /\ status_code(answer) >= 400

\* The final answer of each resource with a URL, read off the recorded requests:
\* one HEAD per resource, followed by one GET exactly when the HEAD was refused.
\* A request out of this pattern leaves a marker that is no answer.
RECURSIVE FinalAnswers(_, _, _, _)
FinalAnswers(resources, reqs, i, pos) ==
  IF i > Len(resources)
  THEN IF pos = Len(reqs) + 1 THEN <<>> ELSE <<"request not expected">>
  ELSE
    LET url == resources[i].url
        sent(n, method) ==
          n <= Len(reqs) /\ reqs[n][1] = method /\ reqs[n][2] = url
    IN  IF url = "" THEN FinalAnswers(resources, reqs, i + 1, pos)
        ELSE IF ~sent(pos, "HEAD") THEN <<"no HEAD request">>
        ELSE IF Refused(reqs[pos][3])
             THEN IF ~sent(pos + 1, "GET") THEN <<"no GET request">>
                  ELSE <<reqs[pos + 1][3]>> \o FinalAnswers(resources, reqs, i + 1, pos + 2)
             ELSE <<reqs[pos][3]>> \o FinalAnswers(resources, reqs, i + 1, pos + 1)

\* The resources with a URL, in order.
WithUrl(resources) == SelectSeq(resources, LAMBDA res : res.url # "")

\* The finding and the deduction the claim gives for a final answer.
AccessFinding(res, answer) ==
  LET prefix == "access_" \o IdPrefix(res.id) IN
  CASE answer = "timeout" -> [severity |-> MAJOR, code |-> prefix \o "_timeout", lost |-> 5]
    [] answer = "error" -> [severity |-> MAJOR, code |-> prefix \o "_error", lost |-> 3]
    [] answer = "200" -> [severity |-> OK, code |-> prefix \o "_accessible", lost |-> 0]
    [] OTHER -> [severity |-> BLOCKER, code |-> prefix \o "_not_accessible", lost |-> 5]

AccessCodes(resources) ==
  {AccessFinding(resources[i], answer).code : i \in 1..Len(resources), answer \in Answers}

ConsistencyLaw(before, after, in) ==
  LET n == Len(before.findings)
      added == SubSeq(after.findings, n + 1, Len(after.findings))
      times(code) == Cardinality({j \in 1..Len(added) : added[j].code = code})
      freq == _extras_value(metadata, "frequency")
      modified == _extras_value(metadata, "modified")
      dated == modified \in ISO_DATE_RE /\ modified \in ValidDate
  IN  /\ after.dimensions = before.dimensions
      /\ Len(after.findings) >= n
      /\ SubSeq(after.findings, 1, n) = before.findings
      /\ \A j \in 1..Len(added) : added[j].severity # BLOCKER
      /\ (dated /\ Threshold(freq) # 0 /\ in.delta_days > Threshold(freq)) =>
           /\ times("stale_data") = 1
           /\ times("freshness_ok") = 0
           /\ \A j \in 1..Len(added) : added[j].code = "stale_data" => added[j].severity = MINOR
      /\ (dated /\ Threshold(freq) # 0 /\ in.delta_days <= Threshold(freq)) =>
           /\ times("stale_data") = 0
           /\ times("freshness_ok") = 1

Exported == pc = "exited" /\ exit_code # 3

\* The positions in the report of its findings that are not ok, ascending.
NotOkPositions ==
  SelectSeq([i \in 1..Len(report.findings) |-> i],
            LAMBDA i : report.findings[i].severity # OK)

\* C24: the export lists exactly the findings of the report that are not ok, in
\* their order in the report, and every dimension in report order; its score is
\* an integer from 0 to 100 and its score_raw is "<total earned>/<total max>".
C24_Export ==
  Exported =>
    LET dims == report.dimensions
        earned_sum[i \in 0..Len(dims)] == IF i = 0 THEN 0 ELSE earned_sum[i - 1] + dims[i].score
        max_sum[i \in 0..Len(dims)] == IF i = 0 THEN 0 ELSE max_sum[i - 1] + dims[i].max_score
        at == NotOkPositions
    IN  /\ Len(exported.findings) = Len(at)
        /\ \A k \in 1..Len(at) : exported.findings[k] = report.findings[at[k]]
        /\ Len(exported.dimensions) = Len(dims)
        /\ \A i \in 1..Len(dims) :
             /\ exported.dimensions[i].name = dims[i].name
             /\ exported.dimensions[i].score = dims[i].score
             /\ exported.dimensions[i].max = dims[i].max_score
        /\ exported.score \in 0..100
        /\ exported.score_raw =
             ToString(earned_sum[Len(dims)]) \o "/" \o ToString(max_sum[Len(dims)])

\* An export of a report where an ok finding stands between two findings that
\* are not ok, with several dimensions.
C24_Witness ==
  /\ Exported
  /\ Len(report.dimensions) >= 3
  /\ Len(exported.findings) >= 2
  /\ \E i, j, k \in 1..Len(report.findings) :
       /\ i < j /\ j < k
       /\ report.findings[i].severity # OK
       /\ report.findings[j].severity = OK
       /\ report.findings[k].severity # OK

\* The sums over the dimensions of a report, dimension by dimension.
EarnedPoints(r) ==
  LET sum[i \in 0..Len(r.dimensions)] ==
        IF i = 0 THEN 0 ELSE sum[i - 1] + r.dimensions[i].score
  IN  sum[Len(r.dimensions)]
MaxPoints(r) ==
  LET sum[i \in 0..Len(r.dimensions)] ==
        IF i = 0 THEN 0 ELSE sum[i - 1] + r.dimensions[i].max_score
  IN  sum[Len(r.dimensions)]

\* n is an integer nearest to the quotient a / b, b > 0.
Nearest(n, a, b) ==
  LET diff == n * b - a IN 2 * (IF diff < 0 THEN 0 - diff ELSE diff) <= b

ScoreLaw(r) ==
  /\ total_score(r) = EarnedPoints(r)
  /\ max_score(r) = MaxPoints(r)
  /\ MaxPoints(r) > 0 => Nearest(score_pct(r), EarnedPoints(r) * 100, MaxPoints(r))
  /\ MaxPoints(r) = 0 => score_pct(r) = 0
  /\ Len(r.dimensions) = 0 => score_pct(r) = 0

\* C25: the total score of a report is the sum of the earned points of its
\* dimensions, the max score the sum of their max points, and the percentage is
\* total * 100 / max rounded to the nearest integer, 0 when max is 0.
C25_ScoreArithmetic == ScoreLaw(report) /\ ScoreLaw(csv_report)

\* A file report whose percentage is rounded up: the quotient is no integer and
\* its fraction is above one half.
C25_Witness ==
  /\ Len(csv_report.dimensions) = 3
  /\ MaxPoints(csv_report) = 60
  /\ 2 * ((EarnedPoints(csv_report) * 100) % 60) > 60
  /\ score_pct(csv_report) = (EarnedPoints(csv_report) * 100) \div 60 + 1

\* The findings phase 0 left in the report of the file.
Phase0Findings == SelectSeq(csv_report.findings, LAMBDA f : f.phase = P0)
Ladder == <<"strict", "lenient", "detect", "reencoded">>
Utf8Names == {"utf_8", "utf-8", "utf8", "ascii", "unknown"}

\* C26: phase 0 follows its ladder in a fixed order. A pre-check (missing file,
\* zero bytes, null byte) adds its blocker and ends the phase before any parse;
\* the lenient parse comes only after a failed strict parse, the encoding
\* recovery only after a failed lenient parse, and the strict parse of the UTF-8
\* copy only when the detected encoding is not UTF-8, ASCII or unknown;
\* csv_unparseable is added only when every attempt failed, and is the last
\* finding of the phase.
C26_FallbackLadder ==
  pc # "phase0" =>
    /\ file \in {"missing", "empty", "binary"} =>
         /\ attempts = <<>>
         /\ Len(Phase0Findings) = 1
         /\ Phase0Findings[1].severity = BLOCKER
         /\ Phase0Findings[1].code =
              (CASE file = "missing" -> "file_not_found" [] file = "empty" -> "file_empty"
                 [] OTHER -> "file_binary")
    /\ Len(attempts) <= Len(Ladder)
    /\ \A i \in 1..Len(attempts) : attempts[i][1] = Ladder[i]
    /\ \A i \in 1..(Len(attempts) - 1) :
         attempts[i][1] # "detect" => attempts[i][2] = "failed"
    /\ Len(attempts) = 4 => attempts[3][2] \notin Utf8Names
    /\ HasCode(csv_report, "csv_unparseable") =>
         /\ Len(attempts) >= 3
         /\ \A i \in 1..Len(attempts) : attempts[i][2] # "ok"
         /\ Phase0Findings[Len(Phase0Findings)].code = "csv_unparseable"
         /\ Cardinality({i \in 1..Len(Phase0Findings) :
                           Phase0Findings[i].code = "csv_unparseable"}) = 1

\* What the claim says of a run of phase 0 on the input `in` that ended with the
\* report `after` and the ladder steps `steps`.
ParseVerdicts == {"no_data_rows", "trivial_structure", "parseable"}
LoadedLaw(in, after, steps) ==
  LET rows == in.rows
      cols == Len(in.table.types)
      found == {i \in 1..Len(after.findings) : after.findings[i].code \in ParseVerdicts}
      last == after.findings[Len(after.findings)]
  IN  (steps # <<>> /\ steps[Len(steps)][2] = "ok") =>
        /\ Cardinality(found) = 1
        /\ found = {Len(after.findings)}
        /\ IF rows = 0 THEN last.code = "no_data_rows" /\ last.severity = BLOCKER
           ELSE IF cols <= 1 THEN last.code = "trivial_structure" /\ last.severity = BLOCKER
           ELSE last.code = "parseable" /\ last.severity = OK

\* C27: after a successful parse by the strict, the lenient or the re-encoded
\* step, phase 0 adds blocker no_data_rows if the row count is 0, otherwise
\* blocker trivial_structure if the column count is at most 1, otherwise ok
\* parseable; a file with 0 rows and 1 column gets only no_data_rows.
C27_ParseVerdict ==
  [][pc = "phase0" =>
       \A in \in Phase0Cases :
         LET o == _phase0_blockers(csv_report, in) IN
         (csv_report' = o.report /\ attempts' = o.attempts
          /\ table' = (IF o.loaded THEN in.table ELSE NoTable)) =>
           LoadedLaw(in, csv_report', attempts')]_vars

\* A file of one column and no data row has been parsed: no_data_rows alone.
C27_Witness ==
  /\ pc = "phase0_done"
  /\ attempts # <<>>
  /\ attempts[Len(attempts)][2] = "ok"
  /\ Len(table.types) = 1
  /\ HasCode(csv_report, "no_data_rows")
  /\ ~HasCode(csv_report, "trivial_structure")
  /\ ~HasCode(csv_report, "parseable")

\* The findings of the file report that give the encoding verdict.
EncodingVerdicts ==
  SelectSeq(csv_report.findings,
            LAMBDA f : f.code \in {"encoding_utf8", "encoding_not_utf8"})

\* The points of a dimension of the file report.
FilePoints(name) ==
  (CHOOSE d \in {csv_report.dimensions[i] : i \in 1..Len(csv_report.dimensions)} :
     d.name = name).score

\* C28: the encoding verdict is reported once per run. When phase 0 re-encoded
\* the file and reported encoding_not_utf8, phase 1 makes no encoding check; a
\* completed run without blockers has exactly one finding encoding_utf8 or
\* encoding_not_utf8, and the Format dimension loses the 10 points of
\* encoding_not_utf8 at most once.
C28_OneEncodingVerdict ==
  (pc = "returned" /\ ~has_blockers(csv_report)) =>
    /\ Len(EncodingVerdicts) = 1
    /\ orig_path # "none" =>
         /\ EncodingVerdicts[1].phase = P0
         /\ EncodingVerdicts[1].code = "encoding_not_utf8"
    /\ orig_path = "none" => EncodingVerdicts[1].phase = P1
    /\ FilePoints(FORMAT) >= (IF HasCode(csv_report, "encoding_not_utf8") THEN 5 ELSE 15)
                              - (IF HasCode(csv_report, "bom_present") THEN 5 ELSE 0)
                              - (IF HasCode(csv_report, "no_header") THEN 3 ELSE 0)

\* A run on a file that phase 0 re-encoded is complete: the verdict of phase 0
\* is the only one and Format has lost 10 points.
C28_Witness ==
  /\ pc = "returned"
  /\ ~has_blockers(csv_report)
  /\ orig_path # "none"
  /\ trace = <<P0, P1, P2, P3, P4>>
  /\ Len(EncodingVerdicts) = 1
  /\ FilePoints(FORMAT) = 5

\* How many findings of the file report have the code.
TimesInFile(code) ==
  Cardinality({i \in 1..Len(csv_report.findings) : csv_report.findings[i].code = code})

\* C29: at the end of phase 0 the report holds exactly one blocker and no
\* parseable finding, or exactly one parseable finding and no blocker; phases
\* 1-4 add no blocker, so the report of a file run has blockers at the end of
\* the run exactly when it had them at the end of phase 0.
C29_BlockerOrParseable ==
  /\ [](pc = "phase0_done" =>
          \/ Len(blockers(csv_report)) = 1 /\ TimesInFile("parseable") = 0
          \/ Len(blockers(csv_report)) = 0 /\ TimesInFile("parseable") = 1)
  /\ [][trace # <<>> =>
          /\ blockers(csv_report') = blockers(csv_report)
          /\ (entry = "csv" /\ pc' = "exited") =>
               has_blockers(report') = has_blockers(csv_report)]_vars

\* A file run is complete: phases 1-4 added a major finding, the report has its
\* one parseable finding and no blocker.
C29_Witness ==
  /\ entry = "csv"
  /\ pc = "exited"
  /\ trace = <<P0, P1, P2, P3, P4>>
  /\ TimesInFile("parseable") = 1
  /\ HasCode(report, "bom_present")
  /\ ~has_blockers(report)

\* The deduction of each code: its dimension and its points.
FileDeductions ==
  << <<"encoding_not_utf8", FORMAT, 10>>, <<"bom_present", FORMAT, 5>>,
     <<"no_header", FORMAT, 3>>,
     <<"wide_format_years", STRUCTURE, 5>>, <<"wide_format_months", STRUCTURE, 5>>,
     <<"duplicate_columns", STRUCTURE, 5>>, <<"aggregate_rows", STRUCTURE, 5>>,
     <<"bad_column_names", STRUCTURE, 3>>, <<"footnote_markers", STRUCTURE, 2>>,
     <<"comma_decimal", CONTENT, 5>>, <<"non_iso_date", CONTENT, 5>>,
     <<"high_null_rate", CONTENT, 5>>, <<"units_in_cells", CONTENT, 3>>,
     <<"placeholder_values", CONTENT, 3>>, <<"invalid_reference_codes", CONTENT, 4>>,
     <<"numeric_as_varchar", CONTENT, 2>>, <<"fuzzy_category_values", CONTENT, 2>> >>

\* A finding of the file report that is not ok carries the code.
Carried(code) ==
  \E i \in 1..Len(csv_report.findings) :
    csv_report.findings[i].code = code /\ csv_report.findings[i].severity # OK

\* The points left to a dimension by the codes the final findings carry.
PointsLeft(name, max) ==
  LET lost[i \in 0..Len(FileDeductions)] ==
        IF i = 0 THEN 0
        ELSE lost[i - 1] + (IF FileDeductions[i][2] = name /\ Carried(FileDeductions[i][1])
                            THEN FileDeductions[i][3] ELSE 0)
  IN  Max0(max - lost[Len(FileDeductions)])

\* The findings of a report that a retraction of no_header leaves alone.
NotRetracted(r) == SelectSeq(r.findings, LAMBDA f : f.code # "no_header")

\* C30: the three file dimensions are computed after all retractions, from the
\* codes of the final findings that are not ok, each code deducting its amount
\* once from its own dimension; a no_header finding retracted by the wide-format
\* detection costs Format nothing; a retraction changes no dimension, no finding
\* of another code and not the order of the findings that stay.
C30_ScoresAfterRetraction ==
  /\ []((pc = "returned" /\ trace = <<P0, P1, P2, P3, P4>>) =>
          /\ Len(csv_report.dimensions) = 3
          /\ FilePoints(FORMAT) = PointsLeft(FORMAT, 15)
          /\ FilePoints(STRUCTURE) = PointsLeft(STRUCTURE, 20)
          /\ FilePoints(CONTENT) = PointsLeft(CONTENT, 25)
          /\ ("no_header" \in emitted /\ ~HasCode(csv_report, "no_header")) =>
               FilePoints(FORMAT) =
                 Max0(15 - (IF Carried("encoding_not_utf8") THEN 10 ELSE 0)
                         - (IF Carried("bom_present") THEN 5 ELSE 0)))
  /\ [][trace # <<>> =>
          /\ Len(NotRetracted(csv_report')) >= Len(NotRetracted(csv_report))
          /\ SubSeq(NotRetracted(csv_report'), 1, Len(NotRetracted(csv_report)))
               = NotRetracted(csv_report)
          /\ TimesInFile("no_header")' < TimesInFile("no_header") =>
               csv_report'.dimensions = csv_report.dimensions
          /\ csv_report.dimensions # <<>> => csv_report'.findings = csv_report.findings]_vars

\* A complete run in which no_header was added and then retracted by the
\* wide-format detection: Format keeps its 15 points, Structure has lost some.
C30_Witness ==
  /\ pc = "returned"
  /\ trace = <<P0, P1, P2, P3, P4>>
  /\ "no_header" \in emitted
  /\ ~HasCode(csv_report, "no_header")
  /\ Carried("wide_format_years")
  /\ FilePoints(FORMAT) = 15
  /\ FilePoints(STRUCTURE) = PointsLeft(STRUCTURE, 20)
  /\ FilePoints(STRUCTURE) < 20

====
